---------------------------- MODULE Spec2Model ----------------------------
(***************************************************************************)
(* A model of the lotto_quick_pick ticket-generation engine: the exact     *)
(* combinatorics (probability.rs), the validated value types (newtypes.rs, *)
(* lib.rs), the bitmap ticket key (ticket_key.rs), the single-draw         *)
(* samplers (ticket_bitwise.rs) and the batch generator (ticket.rs).       *)
(*                                                                         *)
(* Machine integers keep their width.  A u128 / usize value is a sequence  *)
(* of decimal limbs (least significant first, base LimbBase, no leading    *)
(* zero limb), so that 128-bit overflow is decided exactly.  Arithmetic    *)
(* whose result depends on the build profile (overflow checks on: panic;   *)
(* off: wrap-around) takes the profile as an input.                        *)
(***************************************************************************)
EXTENDS Integers, Sequences, FiniteSets, TLC

VARIABLES
    op,            \* the public operation in progress ("idle" before a call)
    args,          \* its arguments, as passed by the caller
    pc,            \* position inside the operation
    ret,           \* its return value (a Result), or NoRet while running
    i,             \* combination: loop index
    result,        \* combination: accumulator (u128)
    comb_calls,    \* number of calls of combination made by the operation
    bitmap,        \* sampler: the bitmap under construction
    picked_count,  \* sampler: number of bits set so far
    draws,         \* number of values requested from the random source
    rejects,       \* number of draws discarded because the bit was set
    ticket_keys,   \* batch generator: the deduplicating key collection
    attempts,      \* batch generator: sampler invocations completed
    max_attempts   \* batch generator: the attempt budget

vars == <<op, args, pc, ret, i, result, comb_calls, bitmap, picked_count,
          draws, rejects, ticket_keys, attempts, max_attempts>>

callVars == <<op, args, pc, ret>>
combVars == <<i, result, comb_calls>>
samplerVars == <<bitmap, picked_count, draws, rejects>>
batchVars == <<ticket_keys, attempts, max_attempts>>

NoRet == [tag |-> "None"]
NoArgs == [none |-> TRUE]
Builds == {"debug", "release"}

----------------------------------------------------------------------------
(* Wide unsigned integers as limb sequences.                               *)

LimbBase == 10000

RECURSIVE BigOfNat(_)
BigOfNat(x) ==
    IF x = 0 THEN << >> ELSE <<x % LimbBase>> \o BigOfNat(x \div LimbBase)

RECURSIVE BigNorm(_)
BigNorm(a) ==
    IF a = << >> THEN << >>
    ELSE IF a[Len(a)] = 0 THEN BigNorm(SubSeq(a, 1, Len(a) - 1))
    ELSE a

\* The value of a limb sequence that fits a model integer.
RECURSIVE BigToNat(_)
BigToNat(a) ==
    IF a = << >> THEN 0 ELSE Head(a) + LimbBase * BigToNat(Tail(a))

RECURSIVE BigAddC(_, _, _)
BigAddC(a, b, c) ==
    IF a = << >> /\ b = << >>
    THEN (IF c = 0 THEN << >> ELSE <<c>>)
    ELSE LET x == IF a = << >> THEN 0 ELSE Head(a)
             y == IF b = << >> THEN 0 ELSE Head(b)
             s == x + y + c
         IN <<s % LimbBase>> \o
            BigAddC(IF a = << >> THEN << >> ELSE Tail(a),
                    IF b = << >> THEN << >> ELSE Tail(b),
                    s \div LimbBase)

BigAdd(a, b) == BigAddC(a, b, 0)

\* a - b for a >= b.
RECURSIVE BigSubB(_, _, _)
BigSubB(a, b, borrow) ==
    IF a = << >> THEN << >>
    ELSE LET y == IF b = << >> THEN 0 ELSE Head(b)
             d == Head(a) - y - borrow
         IN <<IF d < 0 THEN d + LimbBase ELSE d>> \o
            BigSubB(Tail(a), IF b = << >> THEN << >> ELSE Tail(b),
                    IF d < 0 THEN 1 ELSE 0)

BigSub(a, b) == BigNorm(BigSubB(a, b, 0))

\* a * m for one limb m (0 <= m < LimbBase).
RECURSIVE BigMulLimbC(_, _, _)
BigMulLimbC(a, m, c) ==
    IF a = << >>
    THEN (IF c = 0 THEN << >> ELSE <<c>>)
    ELSE LET p == Head(a) * m + c
         IN <<p % LimbBase>> \o BigMulLimbC(Tail(a), m, p \div LimbBase)

RECURSIVE BigMul(_, _)
BigMul(a, b) ==
    IF a = << >> \/ b = << >> THEN << >>
    ELSE LET rest == BigMul(a, Tail(b))
         IN BigAdd(BigNorm(BigMulLimbC(a, Head(b), 0)),
                   IF rest = << >> THEN << >> ELSE <<0>> \o rest)

\* Floor of a / d for a small divisor d > 0, from the top limb down.
RECURSIVE BigDivRem(_, _, _, _)
BigDivRem(a, d, j, r) ==
    IF j = 0 THEN << >>
    ELSE LET cur == r * LimbBase + a[j]
         IN BigDivRem(a, d, j - 1, cur % d) \o <<cur \div d>>

BigDivSmall(a, d) == BigNorm(BigDivRem(a, d, Len(a), 0))

\* The remainder of a / d for a small divisor d > 0.
RECURSIVE BigModSmall(_, _, _, _)
BigModSmall(a, d, j, r) ==
    IF j = 0 THEN r ELSE BigModSmall(a, d, j - 1, (r * LimbBase + a[j]) % d)

RECURSIVE BigLessFrom(_, _, _)
BigLessFrom(a, b, j) ==
    IF j = 0 THEN FALSE
    ELSE IF a[j] # b[j] THEN a[j] < b[j]
    ELSE BigLessFrom(a, b, j - 1)

BigLess(a, b) ==
    IF Len(a) # Len(b) THEN Len(a) < Len(b) ELSE BigLessFrom(a, b, Len(a))

BigLeq(a, b) == a = b \/ BigLess(a, b)

\* u128::MAX = 2^128 - 1 and the usize modulus 2^64.
U128Max == <<1455, 6821, 4317, 4607, 6337, 4634, 938, 6692, 2823, 340>>
USizeModulus == <<1616, 955, 737, 6744, 1844>>


----------------------------------------------------------------------------
(* Results and errors (error.rs).                                          *)

Ok(v) == [tag |-> "Ok", val |-> v]
Err(e) == [tag |-> "Err", err |-> e]
\* The value of an operation that returns no Result.
Value(v) == [tag |-> "Value", val |-> v]
\* An uncaught panic: the operation returns nothing.
Panic(what) == [tag |-> "Panic", what |-> what]

IsOk(r) == r.tag = "Ok"
IsErr(r) == r.tag = "Err"

CalculationOverflow(operation) ==
    [kind |-> "CalculationOverflow", operation |-> operation]
\* A slip: the two fields of the error exchanged.
InvalidMatchCount_swapped(m, p) ==
    [kind |-> "InvalidMatchCount", match_count |-> p, pick_count |-> m]
InvalidMatchCount(m, p) ==
    [kind |-> "InvalidMatchCount", match_count |-> m, pick_count |-> p]

\* u128::checked_mul and u128::checked_div: None when the result is not a u128.
Some(v) == [some |-> TRUE, val |-> v]
None == [some |-> FALSE]

\* A slip: the product kept whatever its size.
checked_mul_unchecked(a, b) == Some(BigMul(a, b))

checked_mul(a, b) ==
    LET p == BigMul(a, b)
    IN IF BigLeq(p, U128Max) THEN Some(p) ELSE None

checked_div(a, d) ==
    IF d = 0 THEN None ELSE Some(BigDivSmall(a, d))

\* A slip: the operands of the subtraction exchanged.
usize_sub_swapped(a, b, build) ==
    IF b >= a THEN Some(BigOfNat(b - a))
    ELSE IF build = "debug" THEN None
    ELSE Some(BigSub(USizeModulus, BigOfNat(a - b)))

\* usize subtraction a - b of two caller-supplied values: exact when a >= b;
\* otherwise a panic with overflow checks on and a wrap modulo 2^64 without.
usize_sub(a, b, build) ==
    IF a >= b THEN Some(BigOfNat(a - b))
    ELSE IF build = "debug" THEN None
    ELSE Some(BigSub(USizeModulus, BigOfNat(b - a)))

----------------------------------------------------------------------------
(* probability.rs: combination.  n is a usize (limbs), k a small usize.    *)

\* A slip: no reduction to the smaller of k and n - k.
ReducedK_unreduced(n, k) == k

\* k.min(n - k), for 0 < k < n.
ReducedK(n, k) ==
    LET nk == BigSub(n, BigOfNat(k))
    IN IF BigLeq(BigOfNat(k), nk) THEN k ELSE BigToNat(nk)

\* A slip: divide before multiplying, result / (i + 1) * (n - i).
CombIter_divide_first(n, k, j, acc) ==
    LET q == checked_div(acc, j + 1)
        m == checked_mul(q.val, BigSub(n, BigOfNat(j)))
    IN IF ~m.some
       THEN Err(CalculationOverflow(
                [what |-> "combination multiplication overflow",
                 n |-> n, k |-> k, iteration |-> j]))
       ELSE Ok(m.val)

\* One iteration of the loop: result * (n - i) / (i + 1), both steps checked.
CombIter(n, k, j, acc) ==
    LET m == checked_mul(acc, BigSub(n, BigOfNat(j)))
    IN IF ~m.some
       THEN Err(CalculationOverflow(
                [what |-> "combination multiplication overflow",
                 n |-> n, k |-> k, iteration |-> j]))
       ELSE LET q == checked_div(m.val, j + 1)
            IN IF ~q.some
               THEN Err(CalculationOverflow(
                        [what |-> "combination division by zero",
                         n |-> n, k |-> k, iteration |-> j]))
               ELSE Ok(q.val)

\* Iterations lo .. hi - 1 of the loop, in order, from accumulator acc; the
\* first failing iteration ends it.  (The run is evaluated in two halves,
\* the second continuing from the result of the first.)
RECURSIVE CombRun(_, _, _, _, _)
CombRun(n, k, lo, hi, acc) ==
    IF lo >= hi THEN Ok(acc)
    ELSE IF hi = lo + 1 THEN CombIter(n, k, lo, acc)
    ELSE LET mid == (lo + hi) \div 2
             r == CombRun(n, k, lo, mid, acc)
         IN IF IsOk(r) THEN CombRun(n, k, mid, hi, r.val) ELSE r

\* The loop from iteration j with accumulator acc, for the reduced k.
CombLoop(n, k, j, acc) == CombRun(n, k, j, k, acc)

\* The early returns: k > n gives 0, k = 0 or k = n gives 1.
CombEarly(n, k) ==
    IF BigLess(n, BigOfNat(k)) THEN Some(<< >>)
    ELSE IF k = 0 \/ BigOfNat(k) = n THEN Some(<<1>>)
    ELSE None

combination(n, k) ==
    IF CombEarly(n, k).some THEN Ok(CombEarly(n, k).val)
    ELSE CombLoop(n, ReducedK(n, k), 0, <<1>>)

----------------------------------------------------------------------------
(* probability.rs: calculate_probability.  The record returned holds the   *)
(* result and the number of combination calls made before returning.       *)

calculate_probability(total_balls, pick_count, match_count, build) ==
    IF match_count > pick_count
    THEN [ret |-> Err(InvalidMatchCount(match_count, pick_count)), calls |-> 0]
    ELSE
    LET total_outcomes == combination(BigOfNat(total_balls), pick_count)
    IN IF ~IsOk(total_outcomes) THEN [ret |-> total_outcomes, calls |-> 1]
    ELSE
    LET ways_to_match == combination(BigOfNat(pick_count), match_count)
    IN IF ~IsOk(ways_to_match) THEN [ret |-> ways_to_match, calls |-> 2]
    ELSE
    LET rest == usize_sub(total_balls, pick_count, build)
    IN IF ~rest.some
       THEN [ret |-> Panic("attempt to subtract with overflow"), calls |-> 2]
    ELSE
    LET ways_to_miss == combination(rest.val, pick_count - match_count)
    IN IF ~IsOk(ways_to_miss) THEN [ret |-> ways_to_miss, calls |-> 3]
    ELSE
    LET favorable_outcomes == checked_mul(ways_to_match.val, ways_to_miss.val)
    IN IF ~favorable_outcomes.some
       THEN [ret |-> Err(CalculationOverflow(
                        [what |-> "favorable outcomes",
                         a |-> ways_to_match.val, b |-> ways_to_miss.val])),
             calls |-> 3]
       ELSE [ret |-> Ok(<<favorable_outcomes.val, total_outcomes.val>>),
             calls |-> 3]

----------------------------------------------------------------------------
(* newtypes.rs and lib.rs: the validated value types and Config.           *)

U8Modulus == 256

InvalidRange(start, end) ==
    [kind |-> "InvalidRange", start |-> start, end |-> end]
PickExceedsRange(pick, available) ==
    [kind |-> "PickExceedsRange", pick |-> pick, available |-> available]
ZeroGames == [kind |-> "ZeroGames"]
TooManyUniqueGames(requested, maximum) ==
    [kind |-> "TooManyUniqueGames", requested |-> requested,
     maximum |-> maximum]
UniqueGenerationFailed(requested, generated) ==
    [kind |-> "UniqueGenerationFailed", requested |-> requested,
     generated |-> generated]

\* BallRange::new: start < end, or InvalidRange.
BallRange_new(start, end) ==
    IF start >= end THEN Err(InvalidRange(start, end))
    ELSE Ok([start |-> start, end |-> end])

\* BallRange::size: end - start + 1 computed on u8 and then widened.  The
\* addition overflows for end - start = 255: a panic with overflow checks
\* on, a wrap to 0 without.
BallRange_size(range, build) ==
    LET d == range.end - range.start
    IN IF d + 1 < U8Modulus THEN Some(d + 1)
       ELSE IF build = "debug" THEN None
       ELSE Some((d + 1) % U8Modulus)

\* A slip: the check against the range size made strict.
PickCount_new_strict(value, range, build) ==
    LET size == BallRange_size(range, build)
    IN IF ~size.some THEN Panic("attempt to add with overflow")
       ELSE IF value >= size.val
       THEN Err(PickExceedsRange(value, size.val))
       ELSE IF value = 0 THEN Err(PickExceedsRange(0, size.val))
       ELSE Ok(value)

\* PickCount::new: 1 <= value <= range.size(), or PickExceedsRange.
PickCount_new(value, range, build) ==
    LET size == BallRange_size(range, build)
    IN IF ~size.some THEN Panic("attempt to add with overflow")
       ELSE IF value > size.val
       THEN Err(PickExceedsRange(value, size.val))
       ELSE IF value = 0 THEN Err(PickExceedsRange(0, size.val))
       ELSE Ok(value)

\* GameCount::new: value >= 1, or ZeroGames.
GameCount_new(value) ==
    IF value = 0 THEN Err(ZeroGames) ELSE Ok(value)

\* Config::new: game count, then the range with start and end put in
\* order, then the pick count; the first failure is returned.
Config_new(games, start, end, pick, build) ==
    LET game_count == GameCount_new(games)
    IN IF ~IsOk(game_count) THEN game_count
    ELSE
    LET lo == IF start <= end THEN start ELSE end
        hi == IF start <= end THEN end ELSE start
        range == BallRange_new(lo, hi)
    IN IF ~IsOk(range) THEN range
    ELSE
    LET pick_count == PickCount_new(pick, range.val, build)
    IN IF ~IsOk(pick_count) THEN pick_count
       ELSE Ok([game_count |-> game_count.val,
                range |-> range.val,
                pick |-> pick_count.val])

----------------------------------------------------------------------------
(* ticket_key.rs and ticket_bitwise.rs: bitmaps, keys and the strategy.    *)
(* A bitmap is the sequence of its words, each the set of its set bit      *)
(* positions: one word for a u64 or a u128, the words of a Vec<u64>.       *)

\* 1 << pos on a word of `width` bits: the position of the bit set.  A shift
\* count >= width panics with overflow checks on and is masked without.
Shl(width, pos, build) ==
    IF pos < width THEN Some(pos)
    ELSE IF build = "debug" THEN None
    ELSE Some(pos % width)

DivCeil(a, b) == (a + b - 1) \div b

\* A slip: the u64 threshold taken one too high.
BitwiseStrategy_select_loose(size) ==
    IF size <= 65 THEN "U64"
    ELSE IF size <= 128 THEN "U128"
    ELSE "VecU64"

\* BitwiseStrategy::select, from range.size().
BitwiseStrategy_select(size) ==
    IF size <= 64 THEN "U64"
    ELSE IF size <= 128 THEN "U128"
    ELSE "VecU64"

WordWidth(strategy) == IF strategy = "U128" THEN 128 ELSE 64

\* The bitmap a sampler starts from.
EmptyBitmap(strategy, size) ==
    IF strategy = "VecU64" THEN [w \in 1 .. DivCeil(size, 64) |-> {}]
    ELSE <<{}>>

\* All set bits of a bitmap, as offsets from the start of the range.
SetOffsets(strategy, bm) ==
    UNION {{(w - 1) * WordWidth(strategy) + b : b \in bm[w]} : w \in DOMAIN bm}

\* count_ones over the word(s).
CountOnes(strategy, bm) == Cardinality(SetOffsets(strategy, bm))

TicketKey(strategy, bm) == [kind |-> strategy, bits |-> bm]

\* TicketKey::count_balls.
count_balls(key) == CountOnes(key.kind, key.bits)

\* The size precondition of the u64 and u128 samplers (the Vec<u64> one has
\* none): an InvalidRange error, or nothing.
SamplerPrecondition(strategy, range, size) ==
    IF strategy # "VecU64" /\ size > WordWidth(strategy)
    THEN Some(InvalidRange(range.start, range.end))
    ELSE None

\* A slip: a draw that hits a set bit still counts as a pick.
SamplerIteration_counts_duplicates(strategy, bm, picked, ball_value, min, build) ==
    LET bit_position == ball_value - min
        word_index == IF strategy = "VecU64" THEN bit_position \div 64 ELSE 0
        bit_offset == IF strategy = "VecU64" THEN bit_position % 64
                      ELSE bit_position
        bit_mask == Shl(WordWidth(strategy), bit_offset, build)
    IN [panic |-> FALSE, fresh |-> TRUE, picked |-> picked + 1,
        bitmap |-> [bm EXCEPT ![word_index + 1] = @ \cup {bit_mask.val}]]

\* A slip: the bit is set but the pick is not counted.
SamplerIteration_count_lost(strategy, bm, picked, ball_value, min, build) ==
    LET bit_position == ball_value - min
        word_index == IF strategy = "VecU64" THEN bit_position \div 64 ELSE 0
        bit_offset == IF strategy = "VecU64" THEN bit_position % 64
                      ELSE bit_position
        bit_mask == Shl(WordWidth(strategy), bit_offset, build)
    IN [panic |-> FALSE, fresh |-> FALSE, picked |-> picked,
        bitmap |-> [bm EXCEPT ![word_index + 1] = @ \cup {bit_mask.val}]]

\* A slip: the bit position is the ball value, not its offset from min.
SamplerIteration_absolute(strategy, bm, picked, ball_value, min, build) ==
    LET bit_position == ball_value
        word_index == IF strategy = "VecU64" THEN bit_position \div 64 ELSE 0
        bit_offset == IF strategy = "VecU64" THEN bit_position % 64
                      ELSE bit_position
        bit_mask == Shl(WordWidth(strategy), bit_offset, build)
    IN IF ~bit_mask.some
          \/ (strategy = "VecU64" /\ word_index + 1 > Len(bm))
       THEN [panic |-> TRUE]
       ELSE IF bit_mask.val \notin bm[word_index + 1]
       THEN [panic |-> FALSE, fresh |-> TRUE, picked |-> picked + 1,
             bitmap |-> [bm EXCEPT ![word_index + 1] = @ \cup {bit_mask.val}]]
       ELSE [panic |-> FALSE, fresh |-> FALSE, picked |-> picked,
             bitmap |-> bm]

\* A slip: the bit is toggled (^=) rather than set (|=), whatever it was.
SamplerIteration_toggles(strategy, bm, picked, ball_value, min, build) ==
    LET bit_position == ball_value - min
        word_index == IF strategy = "VecU64" THEN bit_position \div 64 ELSE 0
        bit_offset == IF strategy = "VecU64" THEN bit_position % 64
                      ELSE bit_position
        bit_mask == Shl(WordWidth(strategy), bit_offset, build)
        fresh == bit_mask.val \notin bm[word_index + 1]
    IN [panic |-> FALSE, fresh |-> fresh,
        picked |-> IF fresh THEN picked + 1 ELSE picked,
        bitmap |-> [bm EXCEPT ![word_index + 1] =
                       IF fresh THEN @ \cup {bit_mask.val}
                       ELSE @ \ {bit_mask.val}]]

\* One iteration of a sampler's loop on the drawn value: its offset, its
\* bit mask, the test, and the set and count when the bit was clear.
SamplerIteration(strategy, bm, picked, ball_value, min, build) ==
    LET bit_position == ball_value - min
        word_index == IF strategy = "VecU64" THEN bit_position \div 64 ELSE 0
        bit_offset == IF strategy = "VecU64" THEN bit_position % 64
                      ELSE bit_position
        bit_mask == Shl(WordWidth(strategy), bit_offset, build)
    IN IF ~bit_mask.some
          \/ (strategy = "VecU64" /\ word_index + 1 > Len(bm))
       THEN [panic |-> TRUE]
       ELSE IF bit_mask.val \notin bm[word_index + 1]
       THEN [panic |-> FALSE, fresh |-> TRUE, picked |-> picked + 1,
             bitmap |-> [bm EXCEPT ![word_index + 1] = @ \cup {bit_mask.val}]]
       ELSE [panic |-> FALSE, fresh |-> FALSE, picked |-> picked,
             bitmap |-> bm]

\* The debug assertions after the loop: the number of set bits is the pick
\* count, and no bit is set outside the range (in the last word, for the
\* Vec<u64> sampler).  They are compiled only with debug assertions on.
SamplerAssertionsHold(strategy, bm, picks, size) ==
    /\ CountOnes(strategy, bm) = picks
    /\ IF strategy = "VecU64"
       THEN size % 64 > 0 => \A b \in bm[Len(bm)] : b < size % 64
       ELSE \A b \in bm[1] : b < size

\* What a sampler returns once the loop has ended.
SamplerResult(strategy, bm, picks, size, build) ==
    IF build = "debug" /\ ~SamplerAssertionsHold(strategy, bm, picks, size)
    THEN Panic("assertion failed")
    ELSE Ok(TicketKey(strategy, bm))

\* TicketKey::to_balls: the bits in ascending order, bit i (of word idx)
\* giving the ball min + (offset as u8), a u8 addition.
\* (The scan of positions j .. top - 1 is split in halves to keep the
\* evaluation shallow; the positions are still visited in ascending order.)
RECURSIVE ToBallsFrom(_, _, _, _)
ToBallsFrom(offsets, min, j, top) ==
    IF j >= top THEN << >>
    ELSE IF top = j + 1
    THEN (IF j \in offsets THEN <<(min + (j % U8Modulus)) % U8Modulus>>
          ELSE << >>)
    ELSE LET mid == (j + top) \div 2
         IN ToBallsFrom(offsets, min, j, mid) \o
            ToBallsFrom(offsets, min, mid, top)

KeyWidth(key) ==
    IF key.kind = "VecU64" THEN 64 * Len(key.bits) ELSE WordWidth(key.kind)

\* A slip: the scan stops one bit short of the word.
to_balls_short(key, range, build) ==
    LET offsets == SetOffsets(key.kind, key.bits)
    IN Some(ToBallsFrom(offsets, range.start, 0, KeyWidth(key) - 1))

to_balls(key, range, build) ==
    LET offsets == SetOffsets(key.kind, key.bits)
    IN IF build = "debug"
          /\ \E j \in offsets : range.start + (j % U8Modulus) >= U8Modulus
       THEN None
       ELSE Some(ToBallsFrom(offsets, range.start, 0, KeyWidth(key)))

\* sort_unstable on ball numbers, by insertion.
RECURSIVE InsertSorted(_, _)
InsertSorted(sorted, x) ==
    IF sorted = << >> THEN <<x>>
    ELSE IF x <= Head(sorted) THEN <<x>> \o sorted
    ELSE <<Head(sorted)>> \o InsertSorted(Tail(sorted), x)

RECURSIVE sort_unstable(_)
sort_unstable(q) ==
    IF q = << >> THEN << >>
    ELSE InsertSorted(sort_unstable(SubSeq(q, 1, Len(q) - 1)), q[Len(q)])

\* A slip: the balls kept in the order given.
Ticket_new_unsorted(balls) == [balls |-> balls]

\* Ticket::new sorts; Ticket::from_sorted keeps the sequence as given.
Ticket_new(balls) == [balls |-> sort_unstable(balls)]
Ticket_from_sorted(balls) == [balls |-> balls]

----------------------------------------------------------------------------
(* ticket.rs: the pieces of generate_unique_tickets.                       *)

\* A slip: a request of exactly the maximum rejected too.
ExceedsMaximum_inclusive(games, max_possible) ==
    BigLeq(max_possible, BigOfNat(games))

\* (game_count as u128) > max_possible.
ExceedsMaximum(games, max_possible) ==
    BigLess(max_possible, BigOfNat(games))

\* A slip: a ratio of exactly 0.8 still given the moderate budget.
AttemptBudget_inclusive(games, max_possible) ==
    IF BigLess(BigMul(<<2>>, BigOfNat(games)), max_possible)
    THEN games * 100
    ELSE IF BigLeq(BigMul(<<5>>, BigOfNat(games)), BigMul(<<4>>, max_possible))
    THEN games * 1000
    ELSE games * 10000

\* The attempt budget, from ratio = games / max_possible: ratio < 0.5 is
\* 2 * games < max_possible and ratio < 0.8 is 5 * games < 4 * max_possible
\* (the quotient of two small integers is compared exactly).
AttemptBudget(games, max_possible) ==
    IF BigLess(BigMul(<<2>>, BigOfNat(games)), max_possible)
    THEN games * 100
    ELSE IF BigLess(BigMul(<<5>>, BigOfNat(games)), BigMul(<<4>>, max_possible))
    THEN games * 1000
    ELSE games * 10000

\* A slip: the loop left one key short of the request.
CollectionFull_one_short(keys, games) == Cardinality(keys) + 1 >= games

\* The negation of the loop condition ticket_keys.len() < game_count.
CollectionFull(keys, games) == Cardinality(keys) >= games

\* A slip: the budget test made strict.
BudgetExhausted_strict(done, budget) == done > budget

\* attempts >= max_attempts.
BudgetExhausted(done, budget) == done >= budget

\* The orders in which a HashSet of keys may be iterated.
RECURSIVE Orders(_)
Orders(keys) ==
    IF keys = {} THEN {<< >>}
    ELSE UNION {{<<k>> \o rest : rest \in Orders(keys \ {k})} : k \in keys}

----------------------------------------------------------------------------
(* The state before any call.                                              *)

Init ==
    /\ op = "idle"
    /\ args = NoArgs
    /\ pc = "idle"
    /\ ret = NoRet
    /\ i = 0
    /\ result = << >>
    /\ comb_calls = 0
    /\ bitmap = << >>
    /\ picked_count = 0
    /\ draws = 0
    /\ rejects = 0
    /\ ticket_keys = {}
    /\ attempts = 0
    /\ max_attempts = 0

----------------------------------------------------------------------------
(* The combinatorics engine as a state machine: combination runs its loop  *)
(* one iteration per step; calculate_probability runs to completion.       *)

\* Bounds and inputs of the combinatorics specification.
MaxN == 12
LargeN == {60, 130, 132}
CombN == (0 .. MaxN) \cup LargeN
MaxBalls == 5
DocTriples == {<<60, 6, 6>>, <<60, 6, 5>>, <<10, 3, 2>>, <<132, 66, 60>>}
ProbTriples ==
    ((0 .. MaxBalls) \X (0 .. MaxBalls) \X (0 .. MaxBalls)) \cup DocTriples

CallCombination(n, k) ==
    /\ op = "idle"
    /\ op' = "combination"
    /\ args' = [n |-> n, k |-> k]
    /\ comb_calls' = 1
    /\ LET early == CombEarly(BigOfNat(n), k)
       IN IF early.some
          THEN /\ ret' = Ok(early.val)
               /\ pc' = "done"
               /\ UNCHANGED <<i, result>>
          ELSE /\ pc' = "loop"
               /\ i' = 0
               /\ result' = <<1>>
               /\ ret' = NoRet
    /\ UNCHANGED <<samplerVars, batchVars>>

CombinationStep ==
    /\ op = "combination"
    /\ pc = "loop"
    /\ LET n == BigOfNat(args.n)
           k == ReducedK(n, args.k)
       IN /\ i < k
          /\ LET r == CombIter(n, k, i, result)
             IN IF IsOk(r)
                THEN /\ result' = r.val
                     /\ i' = i + 1
                     /\ UNCHANGED <<pc, ret>>
                ELSE /\ ret' = r
                     /\ pc' = "done"
                     /\ UNCHANGED <<i, result>>
    /\ UNCHANGED <<op, args, comb_calls, samplerVars, batchVars>>

CombinationReturn ==
    /\ op = "combination"
    /\ pc = "loop"
    /\ i >= ReducedK(BigOfNat(args.n), args.k)
    /\ ret' = Ok(result)
    /\ pc' = "done"
    /\ UNCHANGED <<op, args, i, result, comb_calls, samplerVars, batchVars>>

CallCalculateProbability(t, p, m, b) ==
    /\ op = "idle"
    /\ op' = "calculate_probability"
    /\ args' = [total_balls |-> t, pick_count |-> p, match_count |-> m,
                build |-> b]
    /\ LET r == calculate_probability(t, p, m, b)
       IN /\ ret' = r.ret
          /\ comb_calls' = r.calls
    /\ pc' = "done"
    /\ UNCHANGED <<i, result, samplerVars, batchVars>>

NextProb ==
    \/ \E n \in CombN : \E k \in 0 .. (n + 1) : CallCombination(n, k)
    \/ CombinationStep
    \/ CombinationReturn
    \/ \E t \in ProbTriples : \E b \in Builds :
           CallCalculateProbability(t[1], t[2], t[3], b)

SpecProb == Init /\ [][NextProb]_vars

----------------------------------------------------------------------------
(* The binomial coefficient by Pascal's rule, C(n, k) = C(n-1, k-1) +      *)
(* C(n-1, k), as the reference the code is compared with.  Row n of the    *)
(* table holds C(n, 0) .. C(n, n).                                         *)

PascalNext(row) ==
    [j \in 1 .. (Len(row) + 1) |->
        BigAdd(IF j = 1 THEN << >> ELSE row[j - 1],
               IF j = Len(row) + 1 THEN << >> ELSE row[j])] \o << >>

\* Rows 0 .. n, given the first of them.
RECURSIVE PascalRowsTo(_, _)
PascalRowsTo(rows, n) ==
    IF Len(rows) > n THEN rows
    ELSE PascalRowsTo(Append(rows, PascalNext(rows[Len(rows)])), n)

\* Rows 0 .. n, built sixteen rows at a time.
RECURSIVE PascalRows(_)
PascalRows(n) ==
    IF n <= 16 THEN PascalRowsTo(<< <<(<<1>>)>> >>, n)
    ELSE PascalRowsTo(PascalRows(n - 16), n)

PascalTop == 133
PascalTable == PascalRows(PascalTop)

Binomial(n, k) == IF k > n THEN << >> ELSE PascalTable[n + 1][k + 1]

\* The number of k-element subsets of an n-element set, by enumeration.
SubsetCount(n, k) == Cardinality({S \in SUBSET (1 .. n) : Cardinality(S) = k})

----------------------------------------------------------------------------
(* Claims about the combinatorics engine, checked under SpecProb.          *)

MaxSubsetN == 8

CombDone == op = "combination" /\ pc = "done"
ProbDone == op = "calculate_probability" /\ pc = "done"

\* C6: whenever combination(n, k) returns Ok, the value is the binomial
\* coefficient C(n, k): 0 when k > n, 1 when k = 0 or k = n, otherwise the
\* number of k-subsets of an n-set; inside the loop the accumulator after i
\* iterations is C(n, i) and every division result * (n - i) / (i + 1) is
\* exact.
C6_CombinationIsBinomial ==
    /\ (CombDone /\ IsOk(ret)) =>
          /\ ret.val = Binomial(args.n, args.k)
          /\ args.k > args.n => ret.val = << >>
          /\ (args.k = 0 \/ args.k = args.n) => ret.val = <<1>>
          /\ args.n <= MaxSubsetN =>
                 ret.val = BigOfNat(SubsetCount(args.n, args.k))
    /\ (op = "combination" /\ pc = "loop") =>
          /\ result = Binomial(args.n, i)
          /\ LET m == checked_mul(result, BigOfNat(args.n - i))
             IN (i < ReducedK(BigOfNat(args.n), args.k) /\ m.some) =>
                    BigModSmall(m.val, i + 1, Len(m.val), 0) = 0

C6_Witness ==
    /\ CombDone
    /\ args = [n |-> 60, k |-> 6]
    /\ ret = Ok(BigOfNat(50063860))

\* Two results of combination agree: the same value when Ok, an overflow
\* error in both cases otherwise.
SameCombResult(r1, r2) ==
    \/ IsOk(r1) /\ IsOk(r2) /\ r1.val = r2.val
    \/ /\ IsErr(r1) /\ IsErr(r2)
       /\ r1.err.kind = "CalculationOverflow"
       /\ r2.err.kind = "CalculationOverflow"

\* C7: for 0 <= k <= n, combination(n, k) and combination(n, n - k) return
\* the same result: the same value when Ok, an overflow error in both cases
\* otherwise.
C7_CombinationSymmetric ==
    (CombDone /\ args.k <= args.n) =>
        SameCombResult(ret, combination(BigOfNat(args.n), args.n - args.k))

C7_Witness ==
    /\ CombDone
    /\ args = [n |-> 130, k |-> 127]
    /\ ret = Ok(BigOfNat(357760))
    /\ combination(BigOfNat(130), 3) = ret

\* C8: for match <= pick <= total, unless an overflow is reported,
\* calculate_probability returns (favorable, total_outcomes) with
\* total_outcomes = C(total, pick) and favorable = C(pick, match) *
\* C(total - pick, pick - match); (10, 3, 2) gives (21, 120) and (60, 6, 6)
\* gives (1, 50063860).
C8_ProbabilityValues ==
    (/\ ProbDone
     /\ args.match_count <= args.pick_count
     /\ args.pick_count <= args.total_balls) =>
        /\ \/ IsOk(ret)
           \/ IsErr(ret) /\ ret.err.kind = "CalculationOverflow"
        /\ IsOk(ret) =>
             ret.val =
               <<BigMul(Binomial(args.pick_count, args.match_count),
                        Binomial(args.total_balls - args.pick_count,
                                 args.pick_count - args.match_count)),
                 Binomial(args.total_balls, args.pick_count)>>
        /\ <<args.total_balls, args.pick_count, args.match_count>>
               = <<10, 3, 2>> => ret = Ok(<< <<21>>, <<120>> >>)
        /\ <<args.total_balls, args.pick_count, args.match_count>>
               = <<60, 6, 6>> => ret = Ok(<< <<1>>, BigOfNat(50063860) >>)

C8_Witness ==
    /\ ProbDone
    /\ <<args.total_balls, args.pick_count, args.match_count>> = <<60, 6, 5>>
    /\ ret = Ok(<< <<324>>, BigOfNat(50063860) >>)

\* C9: whenever match > pick, for every total, calculate_probability returns
\* InvalidMatchCount{match_count = match, pick_count = pick}, and no
\* combination has been computed.
C9_InvalidMatchCountFirst ==
    (ProbDone /\ args.match_count > args.pick_count) =>
        /\ ret = Err([kind |-> "InvalidMatchCount",
                      match_count |-> args.match_count,
                      pick_count |-> args.pick_count])
        /\ comb_calls = 0

C9_Witness ==
    /\ ProbDone
    /\ args.match_count > args.pick_count
    /\ args.pick_count > args.total_balls
    /\ IsErr(ret)

\* C10: calculate_probability yields a typed result (Ok or a LottoError) for
\* every triple of caller-supplied values, with no panic and no wrap-around:
\* in particular a favorable count never exceeds the count of all outcomes.
C10_TypedResultAlways ==
    ProbDone =>
        /\ ret.tag \in {"Ok", "Err"}
        /\ IsOk(ret) => BigLeq(ret.val[1], ret.val[2])

----------------------------------------------------------------------------
(* Construction of the value types as a state machine: each constructor    *)
(* runs to completion.                                                     *)

MaxGames == 2
MaxPickArg == 4
U8Inputs == {0, 1, 2, 3, 63, 64, 128, 129, 200, 254, 255}
PickInputs == (0 .. MaxPickArg) \cup {64, 65, 255, 256, 257}

CallConfigNew(games, start, end, pick, b) ==
    /\ op = "idle"
    /\ op' = "Config::new"
    /\ args' = [games |-> games, start |-> start, end |-> end,
                pick |-> pick, build |-> b]
    /\ ret' = Config_new(games, start, end, pick, b)
    /\ pc' = "done"
    /\ UNCHANGED <<combVars, samplerVars, batchVars>>

CallBallRangeSize(start, end, b) ==
    /\ op = "idle"
    /\ IsOk(BallRange_new(start, end))
    /\ op' = "BallRange::size"
    /\ args' = [start |-> start, end |-> end, build |-> b]
    /\ ret' = LET size == BallRange_size(BallRange_new(start, end).val, b)
              IN IF size.some THEN Ok(size.val)
                 ELSE Panic("attempt to add with overflow")
    /\ pc' = "done"
    /\ UNCHANGED <<combVars, samplerVars, batchVars>>

NextConfig ==
    \/ \E games \in 0 .. MaxGames : \E start \in U8Inputs, end \in U8Inputs :
         \E pick \in PickInputs : \E b \in Builds :
             CallConfigNew(games, start, end, pick, b)
    \/ \E start \in U8Inputs, end \in U8Inputs : \E b \in Builds :
             CallBallRangeSize(start, end, b)

SpecConfig == Init /\ [][NextConfig]_vars

----------------------------------------------------------------------------
(* Claims about Config, checked under SpecConfig.                          *)

ConfigDone == op = "Config::new" /\ pc = "done"

Abs(x) == IF x < 0 THEN -x ELSE x

\* What C5 says of a call that has returned: Ok exactly for valid arguments,
\* with the normalised fields; an error, and no Config, otherwise.
C5_Statement ==
    LET valid == /\ args.games >= 1
                 /\ args.start # args.end
                 /\ 1 <= args.pick
                 /\ args.pick <= Abs(args.end - args.start) + 1
    IN /\ IsOk(ret) <=> valid
       /\ IsOk(ret) =>
            ret.val = [game_count |-> args.games,
                       range |-> [start |-> IF args.start < args.end
                                            THEN args.start ELSE args.end,
                                  end |-> IF args.start < args.end
                                          THEN args.end ELSE args.start],
                       pick |-> args.pick]
       /\ ~IsOk(ret) => IsErr(ret)

\* C5: Config::new(games, start, end, pick) returns Ok if and only if
\* games >= 1, start # end and 1 <= pick <= |end - start| + 1, the Config
\* holding min(start, end), max(start, end), pick and games; in every other
\* case it returns an error.
C5_ConfigNewOkIffValid == ConfigDone => C5_Statement

\* The same statement away from the one range whose size does not fit u8.
C5_ExceptFullRange ==
    (ConfigDone /\ Abs(args.end - args.start) + 1 < U8Modulus) => C5_Statement

C5_ExceptFullRange_Witness ==
    /\ ConfigDone
    /\ args.start = 64 /\ args.end = 0 /\ args.pick = 65 /\ args.games = 2
    /\ IsOk(ret)

----------------------------------------------------------------------------
(* Ticket generation as a state machine.  generate_ticket and              *)
(* generate_tickets (which passes its Config to generate_unique_tickets)   *)
(* run one draw of the random source per step.  The random source returns  *)
(* values of [range.start, range.end]; the model draws the values at the   *)
(* low offsets and the last one, and lets at most MaxRejects draws of an   *)
(* operation hit a set bit; a batch is followed for at most MaxAttempts    *)
(* sampler invocations.                                                    *)

MaxPick == 2
MaxBatch == 2
MaxLowOffset == 1
MaxRejects == 1
MaxAttempts == 210
GenRanges ==
    {<<1, 2>>, <<1, 8>>, <<200, 255>>, <<0, 63>>, <<0, 64>>, <<1, 128>>,
     <<0, 128>>, <<0, 255>>}

DrawValues(range) ==
    LET last == range.end - range.start
    IN {range.start + o :
            o \in {x \in (0 .. MaxLowOffset) \cup {last} : x <= last}}

RangeSize == BallRange_size(args.range, args.build).val
Strategy == BitwiseStrategy_select(RangeSize)

CallGenerateTicket(start, end, pick, b) ==
    /\ op = "idle"
    /\ IsOk(BallRange_new(start, end))
    /\ IsOk(PickCount_new(pick, BallRange_new(start, end).val, b))
    /\ op' = "generate_ticket"
    /\ args' = [range |-> BallRange_new(start, end).val, pick |-> pick,
                build |-> b]
    /\ LET size == BallRange_size(args'.range, b).val
           strategy == BitwiseStrategy_select(size)
       IN IF SamplerPrecondition(strategy, args'.range, size).some
          THEN \* generate_ticketkey_bitwise failed: the fallback strategies
               /\ pc' = "fallback"
               /\ UNCHANGED <<bitmap, picked_count>>
          ELSE /\ pc' = "sample"
               /\ bitmap' = EmptyBitmap(strategy, size)
               /\ picked_count' = 0
    /\ UNCHANGED <<ret, draws, rejects, combVars, batchVars>>

\* One iteration of the sampler's loop, in either operation.
SamplerDraw ==
    /\ pc = "sample"
    /\ picked_count < args.pick
    /\ \E ball_value \in DrawValues(args.range) :
        LET r == SamplerIteration(Strategy, bitmap, picked_count, ball_value,
                                  args.range.start, args.build)
        IN IF r.panic
           THEN /\ ret' = Panic("sampler loop")
                /\ pc' = "done"
                /\ draws' = draws + 1
                /\ UNCHANGED <<bitmap, picked_count, rejects>>
           ELSE /\ r.fresh \/ rejects < MaxRejects
                /\ bitmap' = r.bitmap
                /\ picked_count' = r.picked
                /\ draws' = draws + 1
                /\ rejects' = IF r.fresh THEN rejects ELSE rejects + 1
                /\ UNCHANGED <<pc, ret>>
    /\ UNCHANGED <<op, args, combVars, batchVars>>

\* generate_ticket: the key is complete; Ticket::new(key.to_balls(range)).
TicketReturn ==
    /\ op = "generate_ticket"
    /\ pc = "sample"
    /\ picked_count >= args.pick
    /\ LET key == SamplerResult(Strategy, bitmap, args.pick, RangeSize,
                                args.build)
       IN IF ~IsOk(key) THEN ret' = key
          ELSE LET balls == to_balls(key.val, args.range, args.build)
               IN IF ~balls.some
                  THEN ret' = Panic("attempt to add with overflow")
                  ELSE ret' = Value(Ticket_new(balls.val))
    /\ pc' = "done"
    /\ UNCHANGED <<op, args, combVars, samplerVars, batchVars>>

\* generate_tickets(rng, config), config from Config::new: the feasibility
\* check, the budget and the strategy of generate_unique_tickets.
CallGenerateTickets(games, start, end, pick, b) ==
    /\ op = "idle"
    /\ IsOk(Config_new(games, start, end, pick, b))
    /\ op' = "generate_unique_tickets"
    /\ LET config == Config_new(games, start, end, pick, b).val
           size == BallRange_size(config.range, b).val
           max_possible == combination(BigOfNat(size), config.pick)
       IN /\ args' = [range |-> config.range, pick |-> config.pick,
                      games |-> config.game_count, build |-> b]
          /\ comb_calls' = 1
          /\ IF ~IsOk(max_possible)
             THEN /\ ret' = max_possible
                  /\ pc' = "done"
                  /\ UNCHANGED batchVars
             ELSE IF ExceedsMaximum(config.game_count, max_possible.val)
             THEN /\ ret' = Err(TooManyUniqueGames(config.game_count,
                                                  max_possible.val))
                  /\ pc' = "done"
                  /\ UNCHANGED batchVars
             ELSE /\ ticket_keys' = {}
                  /\ max_attempts' =
                         AttemptBudget(config.game_count, max_possible.val)
                  /\ attempts' = 0
                  /\ pc' = "loop"
                  /\ ret' = NoRet
    /\ UNCHANGED <<i, result, samplerVars>>

\* The loop condition holds and the budget is not used up: the sampler of
\* the strategy is invoked.
BatchBeginSample ==
    /\ op = "generate_unique_tickets"
    /\ pc = "loop"
    /\ ~CollectionFull(ticket_keys, args.games)
    /\ ~BudgetExhausted(attempts, max_attempts)
    /\ attempts < MaxAttempts
    /\ LET pre == SamplerPrecondition(Strategy, args.range, RangeSize)
       IN IF pre.some
          THEN /\ ret' = Err(pre.val)
               /\ pc' = "done"
               /\ UNCHANGED <<bitmap, picked_count>>
          ELSE /\ pc' = "sample"
               /\ bitmap' = EmptyBitmap(Strategy, RangeSize)
               /\ picked_count' = 0
               /\ UNCHANGED ret
    /\ UNCHANGED <<op, args, draws, rejects, combVars, batchVars>>

\* A slip: an attempt counted only when its key was new.
BatchInsert_counts_new_only ==
    /\ op = "generate_unique_tickets"
    /\ pc = "sample"
    /\ picked_count >= args.pick
    /\ LET key == SamplerResult(Strategy, bitmap, args.pick, RangeSize,
                                args.build)
       IN IF ~IsOk(key)
          THEN /\ ret' = key
               /\ pc' = "done"
               /\ UNCHANGED <<bitmap, picked_count, batchVars>>
          ELSE /\ ticket_keys' = ticket_keys \cup {key.val}
               /\ attempts' = IF key.val \in ticket_keys THEN attempts
                              ELSE attempts + 1
               /\ pc' = "loop"
               /\ bitmap' = << >>
               /\ picked_count' = 0
               /\ UNCHANGED <<ret, max_attempts>>
    /\ UNCHANGED <<op, args, draws, rejects, combVars>>

\* The sampler returns its key: ticket_keys.insert(key); attempts += 1.
BatchInsert ==
    /\ op = "generate_unique_tickets"
    /\ pc = "sample"
    /\ picked_count >= args.pick
    /\ LET key == SamplerResult(Strategy, bitmap, args.pick, RangeSize,
                                args.build)
       IN IF ~IsOk(key)
          THEN /\ ret' = key
               /\ pc' = "done"
               /\ UNCHANGED <<bitmap, picked_count, batchVars>>
          ELSE /\ ticket_keys' = ticket_keys \cup {key.val}
               /\ attempts' = attempts + 1
               /\ pc' = "loop"
               /\ bitmap' = << >>
               /\ picked_count' = 0
               /\ UNCHANGED <<ret, max_attempts>>
    /\ UNCHANGED <<op, args, draws, rejects, combVars>>

\* The budget is used up before the collection is full.
BatchFail ==
    /\ op = "generate_unique_tickets"
    /\ pc = "loop"
    /\ ~CollectionFull(ticket_keys, args.games)
    /\ BudgetExhausted(attempts, max_attempts)
    /\ ret' = Err(UniqueGenerationFailed(args.games, Cardinality(ticket_keys)))
    /\ pc' = "done"
    /\ UNCHANGED <<op, args, combVars, samplerVars, batchVars>>

\* The collection is full: every key becomes a ticket, in the order the
\* collection happens to iterate.
BatchReturn ==
    /\ op = "generate_unique_tickets"
    /\ pc = "loop"
    /\ CollectionFull(ticket_keys, args.games)
    /\ \E order \in Orders(ticket_keys) :
         IF \E j \in 1 .. Len(order) :
                ~to_balls(order[j], args.range, args.build).some
         THEN ret' = Panic("attempt to add with overflow")
         ELSE ret' = Ok([j \in 1 .. Len(order) |->
                  Ticket_from_sorted(
                      to_balls(order[j], args.range, args.build).val)])
    /\ pc' = "done"
    /\ UNCHANGED <<op, args, combVars, samplerVars, batchVars>>

Next ==
    \/ \E r \in GenRanges : \E pick \in 1 .. MaxPick : \E b \in Builds :
           CallGenerateTicket(r[1], r[2], pick, b)
    \/ SamplerDraw
    \/ TicketReturn
    \/ \E r \in GenRanges : \E pick \in 1 .. MaxPick :
         \E games \in 1 .. MaxBatch : \E b \in Builds :
           CallGenerateTickets(games, r[1], r[2], pick, b)
    \/ BatchBeginSample
    \/ BatchInsert
    \/ BatchFail
    \/ BatchReturn

Spec == Init /\ [][Next]_vars

----------------------------------------------------------------------------
(* Claims about ticket generation, checked under Spec.                     *)

TicketDone == op = "generate_ticket" /\ pc = "done"
BatchDone == op = "generate_unique_tickets" /\ pc = "done"

BallSet(ticket) == {ticket.balls[j] : j \in 1 .. Len(ticket.balls)}

\* C1: for a valid range and 1 <= pick <= range.size(), with a random
\* source that stays inside the range, generate_ticket returns a ticket of
\* exactly pick balls, pairwise distinct, each within
\* [range.start, range.end]; the bitwise sampler never fails on such
\* arguments, so the fallback strategies are not entered.
C1_TicketPickDistinctInRange ==
    /\ op = "generate_ticket" => pc # "fallback"
    /\ TicketDone =>
         /\ ret.tag = "Value"
         /\ Len(ret.val.balls) = args.pick
         /\ \A a, b \in 1 .. Len(ret.val.balls) :
                a # b => ret.val.balls[a] # ret.val.balls[b]
         /\ \A a \in 1 .. Len(ret.val.balls) :
                /\ args.range.start <= ret.val.balls[a]
                /\ ret.val.balls[a] <= args.range.end

\* A ticket of two balls from the 129-value range [0, 128], holding the
\* last ball, after one draw was discarded as a duplicate.
C1_Witness ==
    /\ TicketDone
    /\ args.range = [start |-> 0, end |-> 128]
    /\ args.pick = 2
    /\ rejects = 1
    /\ ret.tag = "Value"
    /\ 128 \in BallSet(ret.val)

\* C2: whenever generate_unique_tickets (reached through generate_tickets)
\* returns Ok for a requested game count N, the list has exactly N tickets
\* and their ball sets are pairwise distinct.
C2_BatchOkHasNDistinctTickets ==
    (BatchDone /\ IsOk(ret)) =>
        /\ Len(ret.val) = args.games
        /\ \A a, b \in 1 .. Len(ret.val) :
               a # b => BallSet(ret.val[a]) # BallSet(ret.val[b])

\* Two tickets returned after a third sampler invocation repeated a key.
C2_Witness ==
    /\ BatchDone
    /\ IsOk(ret)
    /\ args.games = 2
    /\ Len(ret.val) = 2
    /\ attempts = 3

\* The number of pick-subsets of the range, from Pascal's triangle.
MaxPossible == Binomial(args.range.end - args.range.start + 1, args.pick)

IsTooMany(r) == IsErr(r) /\ r.err.kind = "TooManyUniqueGames"

\* C3: a request for more games than combination(range.size(), pick) fails
\* with TooManyUniqueGames{requested = N, maximum = combination(...)} and
\* no value has been requested from the random source; a request of
\* exactly the maximum is not rejected by this check.
C3_TooManyUniqueGames ==
    BatchDone =>
        /\ BigLess(MaxPossible, BigOfNat(args.games)) =>
               /\ ret = Err(TooManyUniqueGames(args.games, MaxPossible))
               /\ draws = 0
        /\ BigOfNat(args.games) = MaxPossible => ~IsTooMany(ret)

\* Two games requested of the single 2-subset of [1, 2].
C3_Witness ==
    /\ BatchDone
    /\ args.range = [start |-> 1, end |-> 2]
    /\ args.pick = 2
    /\ args.games = 2
    /\ IsTooMany(ret)
    /\ draws = 0

\* Exactly the maximum requested, and served.
C3_ExactMaximumServed ==
    /\ BatchDone
    /\ BigOfNat(args.games) = MaxPossible
    /\ IsOk(ret)

IsGenerationFailed(r) == IsErr(r) /\ r.err.kind = "UniqueGenerationFailed"

\* Sampler invocations made so far by the batch: the completed ones and
\* the one in progress.
Invocations == attempts + (IF pc = "sample" THEN 1 ELSE 0)

----------------------------------------------------------------------------
(* ticket_key.rs: TicketKey::from_balls.                                   *)

\* The loop over the balls: every ball sets the bit at its offset from min
\* (in the word offset / 64 of a Vec<u64>).  None when a shift count or a
\* word index is out of bounds with the checks of the build.
RECURSIVE FromBallsLoop(_, _, _, _, _)
FromBallsLoop(kind, bm, balls, min, build) ==
    IF balls = << >> THEN Some(bm)
    ELSE LET offset == Head(balls) - min
             idx == IF kind = "VecU64" THEN offset \div 64 ELSE 0
             bit == IF kind = "VecU64" THEN offset % 64 ELSE offset
             mask == Shl(WordWidth(kind), bit, build)
         IN IF ~mask.some THEN None
            ELSE IF kind = "VecU64" /\ idx + 1 > Len(bm) THEN None
            ELSE FromBallsLoop(kind,
                     [bm EXCEPT ![idx + 1] = @ \cup {mask.val}],
                     Tail(balls), min, build)

\* TicketKey::from_balls(balls, range), balls inside the range.
from_balls(balls, range, build) ==
    LET size == BallRange_size(range, build)
    IN IF ~size.some THEN Panic("attempt to add with overflow")
       ELSE LET kind == IF size.val <= 64 THEN "U64"
                        ELSE IF size.val <= 128 THEN "U128"
                        ELSE "VecU64"
                bm == FromBallsLoop(kind, EmptyBitmap(kind, size.val), balls,
                                    range.start, build)
            IN IF ~bm.some THEN Panic("attempt to shift left with overflow")
               ELSE Value(TicketKey(kind, bm.val))

\* BitwiseStrategy::select(range): range.size() and the thresholds.
select(range, build) ==
    LET size == BallRange_size(range, build)
    IN IF ~size.some THEN Panic("attempt to add with overflow")
       ELSE Ok(BitwiseStrategy_select(size.val))


----------------------------------------------------------------------------
(* Keys, strategies and tickets as a state machine: each operation runs to *)
(* completion on arguments the caller built.                               *)

MaxTicketLen == 3
TicketBalls == {0, 1, 7, 255}

\* The offsets of the balls offered to from_balls: around the word
\* boundaries and at the end of the range.
KeyOffsets(range) ==
    LET last == range.end - range.start
    IN {o \in {0, 1, 63, 64, 127, 128, last} : o <= last}

\* The elements of a set of numbers in ascending order.
RECURSIVE Ascending(_)
Ascending(S) ==
    IF S = {} THEN << >>
    ELSE LET least == CHOOSE x \in S : \A y \in S : x <= y
         IN <<least>> \o Ascending(S \ {least})

\* The sequences of length n over a set.
SeqsOfLen(S, n) == [1 .. n -> S]

\* The rearrangements of a sequence.
Permutations_of(v) ==
    {[j \in 1 .. Len(v) |-> v[f[j]]] :
        f \in {g \in [1 .. Len(v) -> 1 .. Len(v)] :
                  \A a, b \in 1 .. Len(v) : a # b => g[a] # g[b]}}

CallSelect(start, end, b) ==
    /\ op = "idle"
    /\ IsOk(BallRange_new(start, end))
    /\ op' = "BitwiseStrategy::select"
    /\ args' = [range |-> BallRange_new(start, end).val, build |-> b]
    /\ ret' = select(args'.range, b)
    /\ pc' = "done"
    /\ UNCHANGED <<combVars, samplerVars, batchVars>>

\* TicketKey::from_balls(balls, range).to_balls(range).
CallFromBallsToBalls(start, end, offsets, b) ==
    /\ op = "idle"
    /\ IsOk(BallRange_new(start, end))
    /\ op' = "from_balls.to_balls"
    /\ args' = [range |-> BallRange_new(start, end).val,
                balls |-> Ascending({start + o : o \in offsets}),
                build |-> b]
    /\ LET key == from_balls(args'.balls, args'.range, b)
       IN IF key.tag # "Value" THEN ret' = key
          ELSE LET balls == to_balls(key.val, args'.range, b)
               IN IF ~balls.some
                  THEN ret' = Panic("attempt to add with overflow")
                  ELSE ret' = Value(balls.val)
    /\ pc' = "done"
    /\ UNCHANGED <<combVars, samplerVars, batchVars>>

\* Ticket::new(v) and Ticket::new(w), w a rearrangement of v.
CallTicketNew(v, w) ==
    /\ op = "idle"
    /\ op' = "Ticket::new"
    /\ args' = [v |-> v, w |-> w]
    /\ ret' = Value(<<Ticket_new(v), Ticket_new(w)>>)
    /\ pc' = "done"
    /\ UNCHANGED <<combVars, samplerVars, batchVars>>

NextKeys ==
    \/ \E start \in U8Inputs, end \in U8Inputs : \E b \in Builds :
           CallSelect(start, end, b)
    \/ \E start \in U8Inputs, end \in U8Inputs : \E b \in Builds :
           CallBallRangeSize(start, end, b)
    \/ \E r \in GenRanges : \E b \in Builds :
         \E offsets \in SUBSET KeyOffsets([start |-> r[1], end |-> r[2]]) :
           CallFromBallsToBalls(r[1], r[2], offsets, b)
    \/ \E n \in 0 .. MaxTicketLen : \E v \in SeqsOfLen(TicketBalls, n) :
         \E w \in Permutations_of(v) :
           CallTicketNew(v, w)

SpecKeys == Init /\ [][NextKeys]_vars


----------------------------------------------------------------------------
(* Claims about keys, strategies and tickets, checked under SpecKeys.      *)

SelectDone == op = "BitwiseStrategy::select" /\ pc = "done"
SizeDone == op = "BallRange::size" /\ pc = "done"
RoundTripDone == op = "from_balls.to_balls" /\ pc = "done"
TicketNewDone == op = "Ticket::new" /\ pc = "done"

\* The number of values of a range, as a mathematical integer.
MathSize(range) == range.end - range.start + 1

StrategyOfSize(size) ==
    IF size <= 64 THEN "U64" ELSE IF size <= 128 THEN "U128" ELSE "VecU64"

\* C11: BitwiseStrategy::select(range) returns U64 iff the size of the
\* range is at most 64, U128 iff it is 65 .. 128 and VecU64 iff it is above
\* 128, whatever the absolute start and end.
C11_SelectBySize ==
    SelectDone => ret = Ok(StrategyOfSize(MathSize(args.range)))

\* The same statement away from the one range whose size does not fit u8.
C11_SelectBySizeBelow256 ==
    (SelectDone /\ MathSize(args.range) < U8Modulus) =>
        ret = Ok(StrategyOfSize(MathSize(args.range)))

C11_Below256_Witness ==
    /\ SelectDone
    /\ args.range = [start |-> 200, end |-> 255]
    /\ ret = Ok("U64")

\* C12: for every valid range and every ascending duplicate-free sequence
\* balls of ball numbers inside it,
\* TicketKey::from_balls(balls, range).to_balls(range) = balls.
C12_RoundTrip == RoundTripDone => ret = Value(args.balls)

\* The same statement away from the one range whose size does not fit u8.
C12_RoundTripBelow256 ==
    (RoundTripDone /\ MathSize(args.range) < U8Modulus) =>
        ret = Value(args.balls)

C12_Below256_Witness ==
    /\ RoundTripDone
    /\ args.range = [start |-> 0, end |-> 128]
    /\ args.balls = <<0, 63, 64, 127, 128>>
    /\ ret = Value(args.balls)

\* C13: for every range built with start < end, BallRange::size() is
\* end - start + 1 as a mathematical integer, and at least 2; the range
\* 0 .. 255 has size 256.
C13_SizeIsEndMinusStartPlusOne ==
    SizeDone =>
        /\ ret = Ok(args.end - args.start + 1)
        /\ ret.val >= 2

\* The same statement away from the one range whose size does not fit u8.
C13_SizeBelow256 ==
    (SizeDone /\ args.end - args.start + 1 < U8Modulus) =>
        /\ ret = Ok(args.end - args.start + 1)
        /\ ret.val >= 2

IsAscending(q) == \A a \in 1 .. (Len(q) - 1) : q[a] <= q[a + 1]

\* C15: for a sequence v of ball numbers and a rearrangement w of it,
\* Ticket::new(v) = Ticket::new(w), and the balls of the ticket are in
\* ascending order.
C15_TicketOrderIndependent ==
    TicketNewDone =>
        /\ ret.val[1] = ret.val[2]
        /\ IsAscending(ret.val[1].balls)
        /\ Len(ret.val[1].balls) = Len(args.v)

C15_Witness ==
    /\ TicketNewDone
    /\ args.v = <<7, 0, 255>>
    /\ args.w = <<255, 7, 0>>
    /\ ret.val[1].balls = <<0, 7, 255>>


----------------------------------------------------------------------------
(* Overflow reporting of the combinatorics engine, checked under SpecProb. *)

\* The iterations of combination(n, k) whose exact product C(n, i) * (n - i)
\* does not fit 128 bits.
OverflowAt(n, k) ==
    LET kr == IF k > n THEN 0 ELSE IF k <= n - k THEN k ELSE n - k
    IN {j \in 0 .. (kr - 1) :
           BigLess(U128Max, BigMul(Binomial(n, j), BigOfNat(n - j)))}

\* The two factors of the favorable outcomes, when all three combination
\* calls of calculate_probability succeed.
ProbFactors ==
    LET total == combination(BigOfNat(args.total_balls), args.pick_count)
        match == combination(BigOfNat(args.pick_count), args.match_count)
        rest == usize_sub(args.total_balls, args.pick_count, args.build)
    IN IF args.match_count > args.pick_count \/ ~IsOk(total) \/ ~IsOk(match)
          \/ ~rest.some
       THEN None
       ELSE LET miss == combination(rest.val,
                                    args.pick_count - args.match_count)
            IN IF ~IsOk(miss) THEN None
               ELSE Some([total |-> total.val, a |-> match.val,
                          b |-> miss.val])

\* C14: combination never returns a wrapped or truncated value: when a
\* product result * (n - i) exceeds the 128-bit maximum it returns
\* CalculationOverflow naming the multiplication and that iteration i (the
\* first such one), and otherwise the exact binomial coefficient;
\* calculate_probability returns CalculationOverflow when the product of
\* its two factors exceeds that maximum, and otherwise the exact product.
C14_OverflowReported ==
    /\ CombDone =>
         IF OverflowAt(args.n, args.k) = {}
         THEN /\ ret = Ok(Binomial(args.n, args.k))
              /\ BigLeq(ret.val, U128Max)
         ELSE LET first == CHOOSE j \in OverflowAt(args.n, args.k) :
                               \A x \in OverflowAt(args.n, args.k) : j <= x
              IN /\ IsErr(ret)
                 /\ ret.err.kind = "CalculationOverflow"
                 /\ ret.err.operation.what =
                        "combination multiplication overflow"
                 /\ ret.err.operation.iteration = first
    /\ (ProbDone /\ ProbFactors.some) =>
         IF BigLess(U128Max, BigMul(ProbFactors.val.a, ProbFactors.val.b))
         THEN /\ IsErr(ret)
              /\ ret.err.kind = "CalculationOverflow"
              /\ ret.err.operation.what = "favorable outcomes"
         ELSE ret = Ok(<<BigMul(ProbFactors.val.a, ProbFactors.val.b),
                         ProbFactors.val.total>>)
    /\ (ProbDone /\ IsOk(ret)) =>
         /\ BigLeq(ret.val[1], U128Max)
         /\ BigLeq(ret.val[2], U128Max)

\* combination(132, 66): the product overflows before the loop ends.
C14_Witness ==
    /\ CombDone
    /\ args = [n |-> 132, k |-> 66]
    /\ OverflowAt(132, 66) # {}
    /\ IsErr(ret)
    /\ ret.err.operation.what = "combination multiplication overflow"

\* calculate_probability reporting the overflow of its final product.
C14_FavorableOverflowReached ==
    /\ ProbDone
    /\ IsErr(ret)
    /\ ret.err.kind = "CalculationOverflow"
    /\ ret.err.operation.what = "favorable outcomes"


----------------------------------------------------------------------------
(* The attempt budget: generate_unique_tickets from its entry to the start *)
(* of its loop, for requests and ranges around the two thresholds.         *)

MaxBudgetGames == 10
MaxBudgetSize == 16

NextBudget ==
    \E games \in 1 .. MaxBudgetGames : \E size \in 2 .. MaxBudgetSize :
      \E pick \in 1 .. MaxPick : \E b \in Builds :
        CallGenerateTickets(games, 1, size, pick, b)

SpecBudget == Init /\ [][NextBudget]_vars

BudgetComputed == op = "generate_unique_tickets" /\ pc = "loop"

\* C16: with N games requested and max_possible = combination(size, pick),
\* the attempt budget is 100 * N when N / max_possible < 0.5, 1000 * N when
\* 0.5 <= N / max_possible < 0.8, and 10000 * N otherwise (ratio 0.8 or
\* above, N = max_possible included).
C16_AttemptBudgetTiers ==
    BudgetComputed =>
        LET N == args.games
            M == BigToNat(MaxPossible)
        IN /\ N <= M
           /\ 10 * N < 5 * M => max_attempts = 100 * N
           /\ (10 * N >= 5 * M /\ 10 * N < 8 * M) => max_attempts = 1000 * N
           /\ 10 * N >= 8 * M => max_attempts = 10000 * N

\* Four games of the five possible: the ratio is exactly 0.8.
C16_Witness ==
    /\ BudgetComputed
    /\ args.games = 4
    /\ MaxPossible = <<5>>
    /\ max_attempts = 40000


----------------------------------------------------------------------------
(* The batch loop's counters, checked under Spec.                          *)

InBatch == op = "generate_unique_tickets"

\* A sampler invocation of the batch loop returns its key.
InvocationReturns == InBatch /\ pc = "sample" /\ pc' = "loop"

\* What one step does to the counters: an invocation that returns adds 1
\* to attempts and its key to the collection, which grows by 1 iff the key
\* was not in it; no other step of the batch touches either.
CountersStep ==
    /\ InvocationReturns =>
         LET key == TicketKey(Strategy, bitmap)
         IN /\ attempts' = attempts + 1
            /\ key \in ticket_keys => ticket_keys' = ticket_keys
            /\ key \notin ticket_keys =>
                 /\ ticket_keys' = ticket_keys \cup {key}
                 /\ Cardinality(ticket_keys') = Cardinality(ticket_keys) + 1
    /\ (InBatch /\ ~InvocationReturns) =>
         UNCHANGED <<attempts, ticket_keys>>

CountersBounded ==
    InBatch =>
        /\ Cardinality(ticket_keys) <= attempts
        /\ attempts <= max_attempts
        /\ Cardinality(ticket_keys) <= args.games

\* C17: in the batch loop every sampler invocation increases attempts by
\* exactly 1 whether or not its key was new, and the collection grows by 1
\* iff the key was not already present; in every reachable state
\* distinct_keys <= attempts <= max_attempts and distinct_keys <= requested.
C17_AttemptsAndKeys == [][CountersStep]_vars /\ []CountersBounded

\* Three invocations returned, all with the same key.
C17_Witness ==
    /\ InBatch
    /\ pc = "loop"
    /\ attempts = 3
    /\ Cardinality(ticket_keys) = 1


----------------------------------------------------------------------------
(* Termination of the sampler.  The loop has no retry limit, so here the   *)
(* draws are not counted: a draw that hits a set bit changes nothing and   *)
(* may repeat for ever.  The random source is fair: a value that can be    *)
(* drawn is drawn eventually.                                              *)

\* The values of DrawValues(range), numbered: the low offsets
\* 0 .. MaxLowOffset, then the last value of the range.
DrawChoices == 0 .. MaxLowOffset + 1

DrawChoice(range, c) ==
    IF c <= MaxLowOffset THEN range.start + c ELSE range.end

\* One iteration of the sampler's loop on the c-th value the source can
\* return, the number of draws left aside.
SamplerDrawUncounted(c) ==
    /\ op = "generate_ticket"
    /\ pc = "sample"
    /\ picked_count < args.pick
    /\ DrawChoice(args.range, c) \in DrawValues(args.range)
    /\ LET ball_value == DrawChoice(args.range, c)
           r == SamplerIteration(Strategy, bitmap, picked_count, ball_value,
                                 args.range.start, args.build)
       IN IF r.panic
          THEN /\ ret' = Panic("sampler loop")
               /\ pc' = "done"
               /\ UNCHANGED <<bitmap, picked_count>>
          ELSE /\ bitmap' = r.bitmap
               /\ picked_count' = r.picked
               /\ UNCHANGED <<pc, ret>>
    /\ UNCHANGED <<op, args, draws, rejects, combVars, batchVars>>

NextSampler ==
    \/ \E r \in GenRanges : \E pick \in 1 .. MaxPick : \E b \in Builds :
           CallGenerateTicket(r[1], r[2], pick, b)
    \/ \E c \in DrawChoices : SamplerDrawUncounted(c)
    \/ TicketReturn

SpecSamplerFair ==
    /\ Init
    /\ [][NextSampler]_vars
    /\ \A c \in DrawChoices : WF_vars(SamplerDrawUncounted(c))

\* The sampler's loop is running / has ended and the sampler returns a key.
SamplerRunning ==
    op = "generate_ticket" /\ pc = "sample" /\ picked_count < args.pick

SamplerReturnsKey ==
    /\ op = "generate_ticket"
    /\ picked_count >= args.pick
    /\ IsOk(SamplerResult(Strategy, bitmap, args.pick, RangeSize, args.build))

\* C18: for every valid range and pick <= range.size(), under a fair
\* random source the sampler eventually leaves its loop and returns a
\* key; the loop has no retry limit.
C18_SamplerTerminates == SamplerRunning ~> SamplerReturnsKey

\* The whole range selected: both balls of [1, 2].
C18_Witness ==
    /\ TicketDone
    /\ args.range = [start |-> 1, end |-> 2]
    /\ args.pick = 2
    /\ ret = Value([balls |-> <<1, 2>>])

\* No retry limit: while picks are missing, a draw of a value already
\* picked is possible and leaves the sampler where it is.
NoRetryLimit ==
    (op = "generate_ticket" /\ pc = "sample" /\ 0 < picked_count
        /\ picked_count < args.pick) =>
        \E v \in DrawValues(args.range) :
            LET r == SamplerIteration(Strategy, bitmap, picked_count, v,
                                      args.range.start, args.build)
            IN ~r.panic /\ ~r.fresh /\ r.bitmap = bitmap
               /\ r.picked = picked_count


----------------------------------------------------------------------------
(* The loop invariant of the samplers, checked under Spec (generate_ticket *)
(* and the sampler invocations of generate_unique_tickets; three kinds).   *)

InSampler ==
    op \in {"generate_ticket", "generate_unique_tickets"} /\ pc = "sample"

\* The set bits are the picks counted so far, all inside the range.
BitmapInvariant ==
    /\ CountOnes(Strategy, bitmap) = picked_count
    /\ picked_count <= args.pick
    /\ \A o \in SetOffsets(Strategy, bitmap) : o < RangeSize

\* A draw of a value whose bit is set changes neither bitmap nor count.
DuplicateDiscarded ==
    \A v \in DrawValues(args.range) :
        (v - args.range.start) \in SetOffsets(Strategy, bitmap) =>
            LET r == SamplerIteration(Strategy, bitmap, picked_count, v,
                                      args.range.start, args.build)
            IN ~r.panic /\ ~r.fresh /\ r.bitmap = bitmap
               /\ r.picked = picked_count

\* The loop has ended: the key returned has pick bits.
ReturnedKeyCount ==
    picked_count >= args.pick =>
        LET key == SamplerResult(Strategy, bitmap, args.pick, RangeSize,
                                 args.build)
        IN IsOk(key) /\ count_balls(key.val) = args.pick

\* A step that discards a draw leaves the bitmap and the count alone.
DiscardStep ==
    (InSampler /\ rejects' = rejects + 1) => UNCHANGED <<bitmap, picked_count>>

C19_OtherKindsReached ==
    InSampler /\ Strategy = "U128" /\ picked_count = 1 /\ rejects = 1


----------------------------------------------------------------------------
(* The sampler on a given sequence of draws: generate_ticketkey_bitwise    *)
(* with a random source that returns preset in-range values, one per       *)
(* call.  Only a finite prefix of the source is given; the sampler stops   *)
(* in the model when it asks for more.                                     *)

MaxDrawLen == 4

SamplerRanges == GenRanges \cup {<<1, 3>>}

\* The prefixes of the random source: up to MaxDrawLen in-range values.
DrawSeqs(range) ==
    UNION {SeqsOfLen(DrawValues(range), n) : n \in 1 .. MaxDrawLen}

\* The call, with any prefix seq of the values the source will return.
CallSamplerOnDraws(start, end, pick, b) ==
    /\ op = "idle"
    /\ IsOk(BallRange_new(start, end))
    /\ IsOk(PickCount_new(pick, BallRange_new(start, end).val, b))
    /\ op' = "generate_ticketkey_bitwise"
    /\ \E seq \in DrawSeqs(BallRange_new(start, end).val) :
           args' = [range |-> BallRange_new(start, end).val, pick |-> pick,
                    build |-> b, seq |-> seq]
    /\ LET size == BallRange_size(args'.range, b).val
           strategy == BitwiseStrategy_select(size)
           pre == SamplerPrecondition(strategy, args'.range, size)
       IN IF pre.some
          THEN /\ ret' = Err(pre.val)
               /\ pc' = "done"
               /\ UNCHANGED <<bitmap, picked_count>>
          ELSE /\ pc' = "sample"
               /\ bitmap' = EmptyBitmap(strategy, size)
               /\ picked_count' = 0
               /\ UNCHANGED ret
    /\ UNCHANGED <<draws, rejects, combVars, batchVars>>

\* One iteration of the loop: the next value of the source is consumed.
SamplerDrawNext ==
    /\ op = "generate_ticketkey_bitwise"
    /\ pc = "sample"
    /\ picked_count < args.pick
    /\ draws < Len(args.seq)
    /\ LET r == SamplerIteration(Strategy, bitmap, picked_count,
                                 args.seq[draws + 1], args.range.start,
                                 args.build)
       IN IF r.panic
          THEN /\ ret' = Panic("sampler loop")
               /\ pc' = "done"
               /\ UNCHANGED <<bitmap, picked_count, rejects>>
          ELSE /\ bitmap' = r.bitmap
               /\ picked_count' = r.picked
               /\ rejects' = IF r.fresh THEN rejects ELSE rejects + 1
               /\ UNCHANGED <<pc, ret>>
    /\ draws' = draws + 1
    /\ UNCHANGED <<op, args, combVars, batchVars>>

\* The loop has ended: the assertions, then Ok(key).
SamplerReturn ==
    /\ op = "generate_ticketkey_bitwise"
    /\ pc = "sample"
    /\ picked_count >= args.pick
    /\ ret' = SamplerResult(Strategy, bitmap, args.pick, RangeSize,
                            args.build)
    /\ pc' = "done"
    /\ UNCHANGED <<op, args, combVars, samplerVars, batchVars>>

NextDraws ==
    \/ \E r \in SamplerRanges : \E pick \in 1 .. MaxPick : \E b \in Builds :
            CallSamplerOnDraws(r[1], r[2], pick, b)
    \/ SamplerDrawNext
    \/ SamplerReturn

SpecDraws == Init /\ [][NextDraws]_vars

\* The whole loop on a sequence of draws: the bitmap, or nothing when the
\* sequence ends first.
RECURSIVE SamplerRun(_, _, _, _, _, _, _)
SamplerRun(strategy, bm, picked, picks, seq, min, build) ==
    IF picked >= picks THEN Some(bm)
    ELSE IF seq = << >> THEN None
    ELSE LET r == SamplerIteration(strategy, bm, picked, Head(seq), min,
                                   build)
         IN IF r.panic THEN None
            ELSE SamplerRun(strategy, r.bitmap, r.picked, picks, Tail(seq),
                            min, build)

OnDraws == op = "generate_ticketkey_bitwise"
OnDrawsDone == OnDraws /\ pc = "done"

\* The values among the first k draws.
DistinctIn(seq, k) == {seq[j] : j \in 1 .. k}

HasPickDistinct == Cardinality(DistinctIn(args.seq, Len(args.seq))) >= args.pick

\* The draw that supplies the n-th distinct value.
NthDistinctAt(seq, n) ==
    CHOOSE k \in 1 .. Len(seq) :
        /\ Cardinality(DistinctIn(seq, k)) = n
        /\ Cardinality(DistinctIn(seq, k - 1)) = n - 1

\* The key has a bit at offset v - range.start exactly for the first pick
\* distinct values v, and the draws consumed end with the pick-th of them.
KeyIsFirstDistinct ==
    OnDrawsDone =>
        /\ HasPickDistinct
        /\ IsOk(ret)
        /\ LET k == NthDistinctAt(args.seq, args.pick)
           IN /\ draws = k
              /\ SetOffsets(ret.val.kind, ret.val.bits) =
                     {v - args.range.start : v \in DistinctIn(args.seq, k)}

\* While running, no draw beyond that one is consumed, and once it has
\* been consumed the loop is over.
ConsumesUpToLast ==
    (OnDraws /\ HasPickDistinct) =>
        LET k == NthDistinctAt(args.seq, args.pick)
        IN /\ draws <= k
           /\ draws = k => picked_count >= args.pick
           /\ draws < k => picked_count < args.pick

\* The pick-element sets of values the source can return (for [1, 2] and
\* [1, 3] these are all the values of the range).
PickSubsets(range, picks) ==
    {S \in SUBSET DrawValues(range) : Cardinality(S) = picks}

\* Every such set is the result on some sequence of draws (a fact of the
\* arguments, stated once per call), and every result is a set of pick
\* offsets inside the range.
ExactlyThePickSubsets ==
    /\ (OnDraws /\ draws = 0) =>
         \A S \in PickSubsets(args.range, args.pick) :
             \E seq \in SeqsOfLen(DrawValues(args.range), args.pick) :
                 LET bm == SamplerRun(Strategy,
                               EmptyBitmap(Strategy, RangeSize), 0,
                               args.pick, seq, args.range.start, args.build)
                 IN /\ bm.some
                    /\ SetOffsets(Strategy, bm.val) =
                           {v - args.range.start : v \in S}
    /\ OnDrawsDone =>
         /\ IsOk(ret)
         /\ Cardinality(SetOffsets(ret.val.kind, ret.val.bits)) = args.pick
         /\ SetOffsets(ret.val.kind, ret.val.bits) \subseteq
                0 .. (args.range.end - args.range.start)

----------------------------------------------------------------------------
(* The three samplers called directly (they are public functions), with a  *)
(* PickCount that need not come from the same range.                       *)

SamplerKinds == {"U64", "U128", "VecU64"}

DirectRanges == GenRanges \cup {<<1, 3>>, <<100, 200>>}

\* generate_ticketkey_{u64,u128,vec}_bitmap(range, count, rng): range.size(),
\* the size test of the u64 and u128 samplers, the empty bitmap.
CallSamplerDirect(kind, start, end, pick, b) ==
    /\ op = "idle"
    /\ IsOk(BallRange_new(start, end))
    /\ op' = "generate_ticketkey_bitmap"
    /\ args' = [kind |-> kind, range |-> BallRange_new(start, end).val,
                pick |-> pick, build |-> b]
    /\ LET size == BallRange_size(args'.range, b)
       IN IF ~size.some
          THEN /\ ret' = Panic("attempt to add with overflow")
               /\ pc' = "done"
               /\ UNCHANGED <<bitmap, picked_count>>
          ELSE IF SamplerPrecondition(kind, args'.range, size.val).some
          THEN /\ ret' = Err(SamplerPrecondition(kind, args'.range,
                                                 size.val).val)
               /\ pc' = "done"
               /\ UNCHANGED <<bitmap, picked_count>>
          ELSE /\ pc' = "sample"
               /\ bitmap' = EmptyBitmap(kind, size.val)
               /\ picked_count' = 0
               /\ UNCHANGED ret
    /\ UNCHANGED <<draws, rejects, combVars, batchVars>>

\* One iteration of the loop of the sampler called.
DirectDraw ==
    /\ op = "generate_ticketkey_bitmap"
    /\ pc = "sample"
    /\ picked_count < args.pick
    /\ \E ball_value \in DrawValues(args.range) :
        LET r == SamplerIteration(args.kind, bitmap, picked_count,
                                  ball_value, args.range.start, args.build)
        IN IF r.panic
           THEN /\ ret' = Panic("sampler loop")
                /\ pc' = "done"
                /\ UNCHANGED <<bitmap, picked_count, rejects>>
           ELSE /\ r.fresh \/ rejects < MaxRejects
                /\ bitmap' = r.bitmap
                /\ picked_count' = r.picked
                /\ rejects' = IF r.fresh THEN rejects ELSE rejects + 1
                /\ UNCHANGED <<pc, ret>>
    /\ draws' = draws + 1
    /\ UNCHANGED <<op, args, combVars, batchVars>>

\* The loop has ended: the assertions, then Ok(key).
DirectReturn ==
    /\ op = "generate_ticketkey_bitmap"
    /\ pc = "sample"
    /\ picked_count >= args.pick
    /\ ret' = SamplerResult(args.kind, bitmap, args.pick, RangeSize,
                            args.build)
    /\ pc' = "done"
    /\ UNCHANGED <<op, args, combVars, samplerVars, batchVars>>

NextDirect ==
    \/ \E kind \in SamplerKinds : \E r \in DirectRanges :
         \E pick \in 1 .. MaxPick : \E b \in Builds :
            CallSamplerDirect(kind, r[1], r[2], pick, b)
    \/ DirectDraw
    \/ DirectReturn

SpecDirect == Init /\ [][NextDirect]_vars

DirectDone == op = "generate_ticketkey_bitmap" /\ pc = "done"

\* The bit width a sampler demands of the range (none for Vec<u64>).
TooWideFor(kind, range) ==
    kind # "VecU64" /\ MathSize(range) > WordWidth(kind)

\* C21: generate_ticketkey_u64_bitmap returns InvalidRange{start, end} for
\* every range whose size exceeds 64 and generate_ticketkey_u128_bitmap for
\* every range whose size exceeds 128, whatever the absolute start and end,
\* before any draw is requested from the random source.
C21_TooWideRejected ==
    (op = "generate_ticketkey_bitmap" /\ TooWideFor(args.kind, args.range)) =>
        /\ pc = "done"
        /\ ret = Err(InvalidRange(args.range.start, args.range.end))
        /\ draws = 0

\* The same for the ranges of at most 255 values.
C21_TooWideRejectedBelow256 ==
    (op = "generate_ticketkey_bitmap" /\ MathSize(args.range) < U8Modulus) =>
        C21_TooWideRejected

\* 100..200 has 101 values: too wide for u64 though every ball is < 256.
C21_Below256_Witness ==
    /\ DirectDone
    /\ args.kind = "U64"
    /\ args.range = [start |-> 100, end |-> 200]
    /\ ret = Err(InvalidRange(100, 200))
    /\ draws = 0

\* The u64 sampler on 0..255 without overflow checks: a key is returned.
C21_FullRangeAccepted ==
    /\ DirectDone
    /\ args.kind = "U64"
    /\ args.range = [start |-> 0, end |-> 255]
    /\ IsOk(ret)
    /\ draws > 0


----------------------------------------------------------------------------
(* The left shifts the code executes, each as <<width, count>>.            *)

\* 1u64 << bit_position, 1u128 << bit_position, 1u64 << bit_offset in the
\* loop of a sampler, for the value drawn.
SamplerLoopShift(kind, ball_value, min) ==
    <<WordWidth(kind),
      IF kind = "VecU64" THEN (ball_value - min) % 64 ELSE ball_value - min>>

\* (1 << range.size()) - 1, skipped when the size is the width; for the
\* Vec<u64> sampler (1u64 << remaining_bits) - 1 when remaining_bits > 0.
ValidMaskShifts(kind, size) ==
    IF kind = "VecU64"
    THEN (IF size % 64 > 0 THEN {<<64, size % 64>>} ELSE {})
    ELSE IF size = WordWidth(kind) THEN {}
    ELSE {<<WordWidth(kind), size>>}

\* TicketKey::from_balls: 1 << offset for every ball, in the representation
\* chosen from range.size() (none when size() itself panics).
FromBallsShifts(balls, range, build) ==
    LET size == BallRange_size(range, build)
    IN IF ~size.some THEN {}
       ELSE {SamplerLoopShift(BitwiseStrategy_select(size.val), balls[j],
                              range.start) : j \in 1 .. Len(balls)}

\* TicketKey::to_balls: 1 << i for i in 0 .. width - 1, in every word.
ToBallsShifts(kind) ==
    {<<WordWidth(kind), c>> : c \in 0 .. WordWidth(kind) - 1}

InWidth(shifts) == \A sh \in shifts : sh[2] < sh[1]

\* C22: for every valid range and in-range balls, no left shift with a count
\* greater than or equal to the word width (64 for u64, 128 for u128) is
\* executed in TicketKey::from_balls / to_balls (here), nor in the samplers
\* and their valid-mask computation (C22_SamplerShiftsInWidth), ranges of
\* size exactly 64 and 128 included.
C22_NoShiftOverflow ==
    RoundTripDone =>
        /\ InWidth(FromBallsShifts(args.balls, args.range, args.build))
        /\ \A kind \in SamplerKinds : InWidth(ToBallsShifts(kind))

\* The same for the ranges of at most 255 values.
C22_NoShiftOverflowBelow256 ==
    (RoundTripDone /\ MathSize(args.range) < U8Modulus) => C22_NoShiftOverflow

\* The samplers reached through generate_ticketkey_bitwise, under
\* SpecDraws: the shift for the next value of the source, and the valid
\* mask after the loop.
C22_SamplerShiftsInWidth ==
    (OnDraws /\ pc = "sample") =>
        /\ (picked_count < args.pick /\ draws < Len(args.seq)) =>
               InWidth({SamplerLoopShift(Strategy, args.seq[draws + 1],
                                         args.range.start)})
        /\ InWidth(ValidMaskShifts(Strategy, RangeSize))

\* The 64-value range 0..63 with the ball of offset 63 drawn.
C22_Sampler_Witness ==
    /\ OnDrawsDone
    /\ args.range = [start |-> 0, end |-> 63]
    /\ IsOk(ret)
    /\ 63 \in SetOffsets(ret.val.kind, ret.val.bits)


----------------------------------------------------------------------------
(* The keys of generate_unique_tickets turned into tickets, under Spec.    *)

StrictlyAscending(q) == \A a \in 1 .. (Len(q) - 1) : q[a] < q[a + 1]

\* The balls a key stands for in a range.
KeyBalls(key, range) ==
    {range.start + o : o \in SetOffsets(key.kind, key.bits)}

\* to_balls lists exactly the balls of the key, strictly ascending.
ToBallsCanonical(key) ==
    LET balls == to_balls(key, args.range, args.build)
    IN /\ balls.some
       /\ StrictlyAscending(balls.val)
       /\ {balls.val[j] : j \in 1 .. Len(balls.val)} =
              KeyBalls(key, args.range)
       /\ Len(balls.val) = count_balls(key)

\* C23: for every key produced for a range, to_balls(key, range) lists
\* exactly the balls range.start + offset of the set bits, in strictly
\* ascending order, so the tickets returned by generate_unique_tickets are
\* in sorted canonical form without a re-sort.
C23_ToBallsSorted ==
    /\ op = "generate_unique_tickets" =>
           \A key \in ticket_keys : ToBallsCanonical(key)
    /\ (BatchDone /\ IsOk(ret)) =>
           \A j \in 1 .. Len(ret.val) :
               /\ StrictlyAscending(ret.val[j].balls)
               /\ ret.val[j] = Ticket_new(ret.val[j].balls)
               /\ \E key \in ticket_keys :
                      BallSet(ret.val[j]) = KeyBalls(key, args.range)

\* Two tickets of 0..128 from Vec<u64> keys, one with the balls of the
\* first and the last word.
C23_Witness ==
    /\ BatchDone
    /\ IsOk(ret)
    /\ args.range = [start |-> 0, end |-> 128]
    /\ args.games = 2
    /\ \E j \in 1 .. Len(ret.val) : ret.val[j].balls = <<1, 128>>


----------------------------------------------------------------------------
(* The order of the checks of Config::new, under SpecConfig.               *)

\* What C24 says of a call that has returned with invalid arguments.
C24_Statement ==
    LET lo == IF args.start <= args.end THEN args.start ELSE args.end
        hi == IF args.start <= args.end THEN args.end ELSE args.start
        size == hi - lo + 1
    IN /\ args.games = 0 => ret = Err(ZeroGames)
       /\ (args.games >= 1 /\ args.start = args.end) =>
              ret = Err(InvalidRange(args.start, args.end))
       /\ (args.games >= 1 /\ args.start # args.end
              /\ (args.pick = 0 \/ args.pick > size)) =>
              ret = Err(PickExceedsRange(args.pick, size))

\* C24: when several arguments of Config::new are invalid at once, the
\* error returned is the first in the order game count (ZeroGames), range
\* (InvalidRange), pick (PickExceedsRange, also for pick = 0, reporting
\* available = the size of the range).
C24_FirstErrorInOrder == ConfigDone => C24_Statement

\* The same statement away from the one range whose size does not fit u8.
C24_ExceptFullRange ==
    (ConfigDone /\ Abs(args.end - args.start) + 1 < U8Modulus) => C24_Statement

\* games = 0, start = end and pick = 0 together: ZeroGames.
C24_ExceptFullRange_Witness ==
    /\ ConfigDone
    /\ args.games = 0 /\ args.start = args.end /\ args.pick = 0
    /\ ret = Err(ZeroGames)

\* A bad pick on the full range without overflow checks: available = 0.
C24_FullRangeAvailableZero ==
    /\ ConfigDone
    /\ args.games = 1 /\ args.start = 0 /\ args.end = 255 /\ args.pick = 0
    /\ ret = Err(PickExceedsRange(0, 0))


----------------------------------------------------------------------------
(* Tickets as deduplicated sequences.                                      *)

NoDuplicates(q) == \A a, b \in 1 .. Len(q) : a # b => q[a] # q[b]

\* C25: no ball number occurs twice in balls() of a Ticket built through
\* Ticket::new (here, under SpecKeys) or returned by ticket generation
\* (C25_GeneratedTicketsDeduplicated).
C25_TicketDeduplicated ==
    TicketNewDone =>
        /\ NoDuplicates(ret.val[1].balls)
        /\ NoDuplicates(ret.val[2].balls)

\* Ticket::new keeps every ball it is given: what goes in comes out sorted.
C25_TicketNewKeepsDuplicates ==
    /\ TicketNewDone
    /\ args.v = <<7, 7>>
    /\ ret.val[1].balls = <<7, 7>>

\* The tickets of generate_ticket and generate_unique_tickets, under Spec.
C25_GeneratedTicketsDeduplicated ==
    /\ (TicketDone /\ ret.tag = "Value") => NoDuplicates(ret.val.balls)
    /\ (BatchDone /\ IsOk(ret)) =>
           \A j \in 1 .. Len(ret.val) : NoDuplicates(ret.val[j].balls)


----------------------------------------------------------------------------
(* ticket.rs: the legacy insertion approach, generate_by_insertion, next   *)
(* to the bitmap sampler on the same sequence of draws.                    *)

\* A slip: the loop counts the draws, not the distinct values inserted.
InsertionLoop_counts_draws(selected, pick_count, seq) ==
    IF Len(seq) < pick_count THEN None
    ELSE Some({seq[j] : j \in 1 .. pick_count})

\* while selected.len() < pick_count { selected.insert(rng.gen_range_u8(..)) }
\* on the values the source returns: the HashSet, or nothing when the
\* given values end first.
RECURSIVE InsertionLoop(_, _, _)
InsertionLoop(selected, pick_count, seq) ==
    IF Cardinality(selected) >= pick_count THEN Some(selected)
    ELSE IF Len(seq) = 0 THEN None
    ELSE InsertionLoop(selected \cup {Head(seq)}, pick_count, Tail(seq))

\* generate_by_insertion(rng, range, pick_count): the balls collected (a
\* Vec in the iteration order of the HashSet, here the set itself).
generate_by_insertion(range, pick_count, seq) ==
    InsertionLoop({}, pick_count, seq)

\* generate_ticketkey_bitwise(range, count, rng) on the same values.
generate_ticketkey_bitwise(range, pick_count, seq, build) ==
    LET size == BallRange_size(range, build).val
        strategy == BitwiseStrategy_select(size)
        bm == SamplerRun(strategy, EmptyBitmap(strategy, size), 0,
                         pick_count, seq, range.start, build)
    IN IF SamplerPrecondition(strategy, range, size).some
       THEN Some(Err(SamplerPrecondition(strategy, range, size).val))
       ELSE IF ~bm.some THEN None
       ELSE Some(SamplerResult(strategy, bm.val, pick_count, size, build))

Prefix(seq, k) == [j \in 1 .. k |-> seq[j]]

\* Both approaches on one sequence of draws; each result comes with the
\* number of draws after which it was returned (the shortest prefix of
\* the sequence on which the loop ends).
CallBothApproaches(start, end, pick, b) ==
    /\ op = "idle"
    /\ IsOk(BallRange_new(start, end))
    /\ IsOk(PickCount_new(pick, BallRange_new(start, end).val, b))
    /\ op' = "generate_by_insertion, generate_ticketkey_bitwise"
    /\ \E seq \in DrawSeqs(BallRange_new(start, end).val) :
         LET range == BallRange_new(start, end).val
             legacy == generate_by_insertion(range, pick, seq)
             bitwise == generate_ticketkey_bitwise(range, pick, seq, b)
         IN /\ args' = [range |-> range, pick |-> pick, build |-> b,
                        seq |-> seq]
            /\ ret' = Value([
                 legacy |-> legacy,
                 legacy_draws |->
                     IF ~legacy.some THEN Len(seq)
                     ELSE CHOOSE k \in 0 .. Len(seq) :
                         /\ generate_by_insertion(range, pick,
                                                  Prefix(seq, k)).some
                         /\ \A h \in 0 .. (k - 1) :
                                ~generate_by_insertion(range, pick,
                                                       Prefix(seq, h)).some,
                 bitwise |-> bitwise,
                 bitwise_draws |->
                     IF ~bitwise.some THEN Len(seq)
                     ELSE CHOOSE k \in 0 .. Len(seq) :
                         /\ generate_ticketkey_bitwise(range, pick,
                                                       Prefix(seq, k), b).some
                         /\ \A h \in 0 .. (k - 1) :
                                ~generate_ticketkey_bitwise(range, pick,
                                    Prefix(seq, h), b).some])
    /\ pc' = "done"
    /\ UNCHANGED <<combVars, samplerVars, batchVars>>

NextBoth ==
    \E r \in SamplerRanges : \E pick \in 1 .. MaxPick : \E b \in Builds :
        CallBothApproaches(r[1], r[2], pick, b)

SpecBoth == Init /\ [][NextBoth]_vars

BothDone ==
    op = "generate_by_insertion, generate_ticketkey_bitwise" /\ pc = "done"

\* C26: for the same range, pick <= size and sequence of in-range draws,
\* generate_by_insertion and the bitmap sampler yield the same set of
\* balls after consuming the same number of draws.
C26_InsertionMatchesBitmap ==
    BothDone =>
        /\ ret.val.legacy.some = ret.val.bitwise.some
        /\ ret.val.legacy_draws = ret.val.bitwise_draws
        /\ ret.val.legacy.some =>
              /\ IsOk(ret.val.bitwise.val)
              /\ ret.val.legacy.val =
                     KeyBalls(ret.val.bitwise.val.val, args.range)

\* Draws 128, 128, 0 on 0..128 with pick 2: both give {0, 128} after three.
C26_Witness ==
    /\ BothDone
    /\ args.range = [start |-> 0, end |-> 128]
    /\ args.pick = 2
    /\ args.seq = <<128, 128, 0>>
    /\ ret.val.legacy = Some({0, 128})
    /\ ret.val.legacy_draws = 3
    /\ ret.val.bitwise_draws = 3


----------------------------------------------------------------------------
(* The bitmap path never fails, under Spec.                                *)

----------------------------------------------------------------------------
(* generate_unique_tickets invoked twice on the same arguments, with a     *)
(* random source that returns a fixed, repeating sequence of values (the   *)
(* MockRng of ticket.rs) and is started afresh for the second invocation.  *)

MaxReplayLen == 3
MaxReplayDraws == 420

ReplayRanges == {<<1, 2>>, <<1, 3>>, <<1, 8>>, <<0, 128>>}

\* The repeating sequences: up to MaxReplayLen in-range values.
ReplaySeqs(range) ==
    UNION {SeqsOfLen(DrawValues(range), n) : n \in 1 .. MaxReplayLen}

\* A slip: the deduplicating collection outlives the invocation (a static).
UniqueEntry_keeps_collection(range, pick, games, b) ==
    LET max_possible == combination(BigOfNat(BallRange_size(range, b).val),
                                    pick)
    IN /\ comb_calls' = 1
       /\ IF ~IsOk(max_possible)
          THEN /\ ret' = max_possible
               /\ pc' = "done"
               /\ UNCHANGED batchVars
          ELSE IF ExceedsMaximum(games, max_possible.val)
          THEN /\ ret' = Err(TooManyUniqueGames(games, max_possible.val))
               /\ pc' = "done"
               /\ UNCHANGED batchVars
          ELSE /\ ticket_keys' = ticket_keys
               /\ max_attempts' = AttemptBudget(games, max_possible.val)
               /\ attempts' = 0
               /\ pc' = "loop"
               /\ ret' = NoRet

\* The start of generate_unique_tickets: the feasibility check, then the
\* locals of the invocation: an empty collection, the budget, attempts = 0.
UniqueEntry(range, pick, games, b) ==
    LET max_possible == combination(BigOfNat(BallRange_size(range, b).val),
                                    pick)
    IN /\ comb_calls' = 1
       /\ IF ~IsOk(max_possible)
          THEN /\ ret' = max_possible
               /\ pc' = "done"
               /\ UNCHANGED batchVars
          ELSE IF ExceedsMaximum(games, max_possible.val)
          THEN /\ ret' = Err(TooManyUniqueGames(games, max_possible.val))
               /\ pc' = "done"
               /\ UNCHANGED batchVars
          ELSE /\ ticket_keys' = {}
               /\ max_attempts' = AttemptBudget(games, max_possible.val)
               /\ attempts' = 0
               /\ pc' = "loop"
               /\ ret' = NoRet

\* The first invocation.
CallUniqueFirst(games, start, end, pick, b) ==
    /\ op = "idle"
    /\ IsOk(Config_new(games, start, end, pick, b))
    /\ op' = "generate_unique_tickets"
    /\ \E seq \in ReplaySeqs(BallRange_new(start, end).val) :
           args' = [range |-> BallRange_new(start, end).val, pick |-> pick,
                    games |-> games, build |-> b, seq |-> seq, run |-> 1,
                    first |-> [ret |-> NoRet, draws |-> 0]]
    /\ UniqueEntry(BallRange_new(start, end).val, pick, games, b)
    /\ UNCHANGED <<i, result, samplerVars>>

\* The first invocation has returned: the second one, same arguments, the
\* random source started again; the first outcome is kept for comparison.
CallUniqueAgain ==
    /\ op = "generate_unique_tickets"
    /\ pc = "done"
    /\ args.run = 1
    /\ args' = [args EXCEPT !.run = 2,
                            !.first = [ret |-> ret, draws |-> draws]]
    /\ UniqueEntry(args.range, args.pick, args.games, args.build)
    /\ draws' = 0
    /\ UNCHANGED <<op, i, result, bitmap, picked_count, rejects>>

\* One iteration of the sampler's loop on the next value of the source.
ReplayDraw ==
    /\ op = "generate_unique_tickets"
    /\ pc = "sample"
    /\ picked_count < args.pick
    /\ draws < MaxReplayDraws
    /\ LET ball_value == args.seq[(draws % Len(args.seq)) + 1]
           r == SamplerIteration(Strategy, bitmap, picked_count, ball_value,
                                 args.range.start, args.build)
       IN IF r.panic
          THEN /\ ret' = Panic("sampler loop")
               /\ pc' = "done"
               /\ UNCHANGED <<bitmap, picked_count, rejects>>
          ELSE /\ bitmap' = r.bitmap
               /\ picked_count' = r.picked
               /\ rejects' = IF r.fresh THEN rejects ELSE rejects + 1
               /\ UNCHANGED <<pc, ret>>
    /\ draws' = draws + 1
    /\ UNCHANGED <<op, args, combVars, batchVars>>

NextReplay ==
    \/ \E r \in ReplayRanges : \E pick \in 1 .. MaxPick :
         \E games \in 1 .. MaxBatch : \E b \in Builds :
            CallUniqueFirst(games, r[1], r[2], pick, b)
    \/ CallUniqueAgain
    \/ BatchBeginSample
    \/ ReplayDraw
    \/ BatchInsert
    \/ BatchFail
    \/ BatchReturn

SpecReplay == Init /\ [][NextReplay]_vars

\* The outcome of an invocation: the set of its tickets, or its error.
Outcome(r) ==
    IF IsOk(r) THEN [tickets |-> {r.val[j] : j \in 1 .. Len(r.val)}]
    ELSE [other |-> r]

SecondDone ==
    op = "generate_unique_tickets" /\ pc = "done" /\ args.run = 2

\* C28: two runs of generate_unique_tickets with the same range, pick and
\* game count and the same sequence of values from the random source end
\* in the same outcome, the same set of tickets or the same error, after
\* the same number of draws: nothing is carried over from one invocation
\* to the next.
C28_SameOutcomeOnReplay ==
    SecondDone =>
        /\ Outcome(ret) = Outcome(args.first.ret)
        /\ draws = args.first.draws

\* Two tickets of 1..8 twice over, the source repeating 1, 1, 8.
C28_Witness ==
    /\ SecondDone
    /\ args.range = [start |-> 1, end |-> 8]
    /\ args.seq = <<1, 1, 8>>
    /\ args.games = 2
    /\ args.pick = 1
    /\ IsOk(ret)
    /\ draws = 3

\* The same error twice: the budget of 200 attempts used up on one key.
C28_SameErrorReached ==
    /\ SecondDone
    /\ ret = Err(UniqueGenerationFailed(2, 1))
    /\ args.first.ret = ret
    /\ draws = 200


----------------------------------------------------------------------------
(* Overflow of combination against the size of the binomial coefficient:   *)
(* under SpecProb, and for generate_unique_tickets on wide ranges with     *)
(* picks near the middle.                                                  *)

WideSizes == 126 .. 132
WidePicks == 60 .. 66

NextWide ==
    \E games \in 1 .. MaxBatch : \E size \in WideSizes :
      \E pick \in WidePicks : \E b \in Builds :
        CallGenerateTickets(games, 1, size, pick, b)

SpecWide == Init /\ [][NextWide]_vars

\* C(n, k) fits the 128-bit integer.
Representable(n, k) == k > n \/ BigLeq(Binomial(n, k), U128Max)

\* C29: combination(n, k) returns Ok whenever the binomial coefficient
\* C(n, k) fits the 128-bit integer: it reports CalculationOverflow only
\* when C(n, k) itself exceeds that capacity.
C29_OkWhenRepresentable ==
    CombDone => (Representable(args.n, args.k) <=> IsOk(ret))

\* combination(130, 65): C(130, 65) fits, the product C(130, 51) * 79 of
\* iteration 51 does not.
C29_RepresentableRejected ==
    /\ CombDone
    /\ args = [n |-> 130, k |-> 65]
    /\ Representable(130, 65)
    /\ IsErr(ret)
    /\ ret.err.kind = "CalculationOverflow"
    /\ ret.err.operation.what = "combination multiplication overflow"
    /\ ret.err.operation.iteration = 51

\* What does hold: an overflow is reported only when C(n, k') * (n - k')
\* of some iteration exceeds the capacity, never when C(n, k) * n fits.
C29_OkWhenProductsFit ==
    CombDone =>
        /\ IsOk(ret) => Representable(args.n, args.k)
        /\ (/\ args.k <= args.n
            /\ BigLeq(BigMul(Binomial(args.n,
                                      ReducedK(BigOfNat(args.n), args.k)),
                             BigOfNat(args.n)), U128Max)) => IsOk(ret)

\* generate_unique_tickets rejected with the overflow error although the
\* number of combinations of its (size, pick) is representable.
C29_BatchRejected ==
    /\ op = "generate_unique_tickets"
    /\ pc = "done"
    /\ Representable(BallRange_size(args.range, args.build).val, args.pick)
    /\ IsErr(ret)
    /\ ret.err.kind = "CalculationOverflow"


----------------------------------------------------------------------------
(* main.rs: the command line program.  Config::new, the generation of the  *)
(* tickets, then the probability display with its gcd loop, one iteration  *)
(* per step.  result holds the pair (a, b) of gcd_u128.                    *)

\* u128 division and remainder by a non-zero u128, by long division from
\* the top limb down; each quotient limb is found by bisection.
RECURSIVE QuotLimb(_, _, _, _)
QuotLimb(cur, d, lo, hi) ==
    IF lo = hi THEN lo
    ELSE LET mid == (lo + hi + 1) \div 2
         IN IF BigLeq(BigNorm(BigMulLimbC(d, mid, 0)), cur)
            THEN QuotLimb(cur, d, mid, hi)
            ELSE QuotLimb(cur, d, lo, mid - 1)

RECURSIVE BigLongDiv(_, _, _, _)
BigLongDiv(a, d, j, r) ==
    IF j = 0 THEN [q |-> << >>, r |-> r]
    ELSE LET cur == BigNorm(<<a[j]>> \o r)
             limb == QuotLimb(cur, d, 0, LimbBase - 1)
             rem == BigSub(cur, BigNorm(BigMulLimbC(d, limb, 0)))
             rest == BigLongDiv(a, d, j - 1, rem)
         IN [q |-> rest.q \o <<limb>>, r |-> rest.r]

BigDiv(a, d) == BigNorm(BigLongDiv(a, d, Len(a), << >>).q)
BigRem(a, d) == BigLongDiv(a, d, Len(a), << >>).r

\* The process ends with an exit code.
Exit(code) == [tag |-> "Exit", code |-> code]

MainNumbers == {0, 1, 4, 5, 6, 60}
MaxMainPick == 6
MaxMainTickets == 2
MatchedArgs == {None} \cup {Some(m) : m \in 0 .. MaxMainPick}

\* (cli.end_number - cli.start_number + 1) as usize, in u8 arithmetic on
\* the arguments as given: a panic with overflow checks on, a wrap without.
TotalBalls(start_number, end_number, build) ==
    LET d == end_number - start_number
    IN IF d < 0
       THEN (IF build = "debug" THEN None
             ELSE Some((d + U8Modulus + 1) % U8Modulus))
       ELSE IF d + 1 >= U8Modulus
       THEN (IF build = "debug" THEN None ELSE Some(0))
       ELSE Some(d + 1)

\* Cli::parse and Config::new: a configuration error ends the process.
CallMain(tickets, start_number, end_number, pick, matched, b) ==
    /\ op = "idle"
    /\ op' = "main"
    /\ args' = [tickets |-> tickets, start_number |-> start_number,
                end_number |-> end_number, pick |-> pick,
                matched |-> matched, build |-> b,
                favorable |-> << >>, total |-> << >>]
    /\ LET config == Config_new(tickets, start_number, end_number, pick, b)
       IN IF IsOk(config)
          THEN /\ pc' = "generate"
               /\ ret' = NoRet
          ELSE /\ pc' = "done"
               /\ ret' = IF IsErr(config) THEN Exit(1) ELSE config
    /\ UNCHANGED <<combVars, samplerVars, batchVars>>

\* generate_tickets on the thread's random source and display_tickets: the
\* tickets are printed, or a generation error ends the process.
MainGenerate ==
    /\ op = "main"
    /\ pc = "generate"
    /\ LET config == Config_new(args.tickets, args.start_number,
                                args.end_number, args.pick, args.build).val
           max_possible ==
               combination(BigOfNat(BallRange_size(config.range,
                                                   args.build).val),
                           config.pick)
       IN \/ /\ \/ ~IsOk(max_possible)
                \/ ExceedsMaximum(config.game_count, max_possible.val)
                \/ config.game_count >= 2
             /\ pc' = "done"
             /\ ret' = Exit(1)
          \/ /\ IsOk(max_possible)
             /\ ~ExceedsMaximum(config.game_count, max_possible.val)
             /\ pc' = "probability"
             /\ ret' = NoRet
    /\ UNCHANGED <<op, args, combVars, samplerVars, batchVars>>

\* if let Some(matched_balls) = cli.matched: total_balls and
\* calculate_probability; on Ok the gcd loop starts on (favorable, total).
MainProbability ==
    /\ op = "main"
    /\ pc = "probability"
    /\ IF ~args.matched.some
       THEN /\ pc' = "done"
            /\ ret' = Exit(0)
            /\ UNCHANGED <<args, result>>
       ELSE LET total_balls == TotalBalls(args.start_number, args.end_number,
                                          args.build)
            IN IF ~total_balls.some
               THEN /\ pc' = "done"
                    /\ ret' = Panic("attempt to subtract with overflow")
                    /\ UNCHANGED <<args, result>>
               ELSE LET r == calculate_probability(total_balls.val, args.pick,
                                                   args.matched.val,
                                                   args.build).ret
                    IN IF IsOk(r)
                       THEN /\ args' = [args EXCEPT !.favorable = r.val[1],
                                                    !.total = r.val[2]]
                            /\ result' = <<r.val[1], r.val[2]>>
                            /\ pc' = "gcd"
                            /\ ret' = NoRet
                       ELSE /\ pc' = "done"
                            /\ ret' = IF IsErr(r) THEN Exit(0) ELSE r
                            /\ UNCHANGED <<args, result>>
    /\ UNCHANGED <<op, i, comb_calls, samplerVars, batchVars>>

\* gcd_u128: one iteration of while b != 0.
MainGcdStep ==
    /\ op = "main"
    /\ pc = "gcd"
    /\ result[2] # << >>
    /\ result' = <<result[2], BigRem(result[1], result[2])>>
    /\ UNCHANGED <<op, args, pc, ret, i, comb_calls, samplerVars, batchVars>>

\* gcd_u128 returns a; the fraction is simplified and one of the two lines
\* is printed.  A division by zero is a panic in every build.
MainPrint ==
    /\ op = "main"
    /\ pc = "gcd"
    /\ result[2] = << >>
    /\ pc' = "done"
    /\ LET gcd == result[1]
       IN IF gcd = << >>
          THEN ret' = Panic("attempt to divide by zero")
          ELSE LET simplified_favorable == BigDiv(args.favorable, gcd)
                   simplified_total == BigDiv(args.total, gcd)
               IN IF simplified_favorable = <<1>>
                  THEN ret' = Value([line |-> "is",
                                     favorable |-> simplified_favorable,
                                     total |-> simplified_total])
                  ELSE IF simplified_favorable = << >>
                  THEN ret' = Panic("attempt to divide by zero")
                  ELSE ret' = Value([line |-> "is approximately 1 in",
                                     total |-> BigDiv(simplified_total,
                                                      simplified_favorable)])
    /\ UNCHANGED <<op, args, i, result, comb_calls, samplerVars, batchVars>>

NextMain ==
    \/ \E tickets \in 1 .. MaxMainTickets : \E s \in MainNumbers :
         \E e \in MainNumbers : \E pick \in 1 .. MaxMainPick :
           \E matched \in MatchedArgs : \E b \in Builds :
              CallMain(tickets, s, e, pick, matched, b)
    \/ MainGenerate
    \/ MainProbability
    \/ MainGcdStep
    \/ MainPrint

SpecMain == Init /\ [][NextMain]_vars

InDisplay == op = "main" /\ pc \in {"gcd", "done"} /\ args.total # << >>

\* C30: for every valid configuration and every matched count for which
\* calculate_probability returns Ok((favorable, total)), the probability
\* display finishes without a division by zero: the gcd it divides by is
\* non-zero, and so is the simplified favorable count it divides by on the
\* "approximately 1 in N" branch, favorable = 0 included.
C30_DisplayNeverDividesByZero ==
    op = "main" => ret # Panic("attempt to divide by zero")

\* --start-number 1 --end-number 5 --pick 4 --matched 1: favorable = 0.
C30_ZeroFavorablePanics ==
    /\ op = "main"
    /\ pc = "done"
    /\ args.start_number = 1
    /\ args.end_number = 5
    /\ args.pick = 4
    /\ args.matched = Some(1)
    /\ args.favorable = << >>
    /\ args.total = <<5>>
    /\ result = <<(<<5>>), << >> >>
    /\ ret = Panic("attempt to divide by zero")

\* What does hold: the gcd is never zero, and the display divides by zero
\* exactly when favorable = 0.
C30_GcdNonZeroAndPanicOnlyOnZero ==
    /\ (op = "main" /\ pc = "gcd" /\ result[2] = << >>) => result[1] # << >>
    /\ (op = "main" /\ pc = "done" /\ args.total # << >>) =>
           (ret = Panic("attempt to divide by zero")
              <=> args.favorable = << >>)

\* The division of the second line carried out on a non-zero count:
\* 1..5, pick 2, matched 0 gives 3 in 10, printed as approximately 1 in 3.
C30_ApproximateLineReached ==
    /\ op = "main"
    /\ pc = "done"
    /\ ret.tag = "Value"
    /\ ret.val.line = "is approximately 1 in"
    /\ args.favorable = <<3>>
    /\ args.total = <<10>>
    /\ ret.val.total = <<3>>


=============================================================================
